---------------------------- MODULE Spec2Model ----------------------------
(***************************************************************************)
(* Report pipeline of the Cypress/Cucumber test framework:                 *)
(*   cypress/support/utils/report/cucumber-report-generator.ts             *)
(*   cypress/support/utils/report/report-statistics.ts                     *)
(*   cypress/support/utils/report/report-html-generator.ts                 *)
(* The after:run hook converts the runner's results to Cucumber JSON       *)
(* (feature files parsed from disk, merged with the run records) and then  *)
(* renders the report from that JSON, with the statistics of the run and   *)
(* the screenshots of its failed scenarios.                                *)
(* Test support classes, modelled on their own:                            *)
(*   cypress/support/core/api/base-api-client.ts (BaseApiClient) with      *)
(*   cypress/support/core/api/auth/session-auth-strategy.ts                *)
(*   the TestLogger                                                        *)
(***************************************************************************)
EXTENDS Integers, Sequences, FiniteSets, TLC

(***************************************************************************)
(* Bounds of the model.                                                    *)
(***************************************************************************)
MaxLines == 5          \* lines of a free-text feature file
MaxBackground == 1     \* background steps of a generated feature file
MaxSteps == 2          \* own steps of a scenario of a generated feature file
MaxTests == 2          \* run records of a run

(***************************************************************************)
(* Exact rational arithmetic (JavaScript numbers, without rounding error). *)
(***************************************************************************)
RECURSIVE GCD(_, _)
GCD(a, b) == IF b = 0 THEN a ELSE GCD(b, a % b)

Rat(n, d) == LET g == GCD(n, d) IN [n |-> n \div g, d |-> d \div g]

RatZero == Rat(0, 1)

RatAdd(a, b) == Rat(a.n * b.d + b.n * a.d, a.d * b.d)

RatDivInt(q, k) == Rat(q.n, q.d * k)

\* Math.round of a non-negative number: halves round up.
RatRound(q) == (2 * q.n + q.d) \div (2 * q.d)

(***************************************************************************)
(* Durations.  A step's duration field holds nanoseconds.  TLC's integers  *)
(* are 32-bit and 3000 ms is 3 * 10^9 ns, so a nanosecond quantity x is    *)
(* held as the exact rational x / NsPerMs.                                 *)
(***************************************************************************)
NsPerMs == 1000000

\* A whole number of nanoseconds written as a literal in the source.
Ns(x) == Rat(x, NsPerMs)

\* (test.duration || 0) * 1000000
MsToNs(ms) == Rat(ms, 1)

\* duration: 1000000000 // 1 second default in nanoseconds
DefaultStepDuration == 1000000000

(***************************************************************************)
(* Text.  A line of a feature file is its indentation, its leading word    *)
(* (up to and including a ':' for a section header) and the rest of the    *)
(* line with surrounding whitespace removed.  An error text is the         *)
(* sequence of its fragments; <<>> is the absent (or empty) text.          *)
(***************************************************************************)
Trim(line) == [head |-> line.head, text |-> line.text]

StartsWith(trimmedLine, prefix) == trimmedLine.head = prefix

\* trimmedLine.replace(prefix, '').trim()
AfterPrefix(trimmedLine) == trimmedLine.text

Includes(text, pattern) == \E i \in 1..Len(text) : text[i] = pattern

StepKeywords == {"Given", "When", "Then", "And", "But"}

\* /^\s*(Given|When|Then|And|But)\s+(.+)$/
StepMatchDropsAnd(trimmedLine) ==
    trimmedLine.head \in (StepKeywords \ {"And"}) /\ trimmedLine.text # ""

StepMatch(trimmedLine) ==
    trimmedLine.head \in StepKeywords /\ trimmedLine.text # ""

(***************************************************************************)
(* parseFeatureFile.  Step objects live in the feature's object table      *)
(* `objs'; a scenario's step list is a list of references into it, so      *)
(* that the spread [...backgroundSteps] copies references, not objects.    *)
(***************************************************************************)
Null == [null |-> TRUE]

NewStep(trimmedLine) ==
    [keyword |-> trimmedLine.head,
     name    |-> trimmedLine.text,
     result  |-> [status |-> "passed",
                  duration |-> Ns(DefaultStepDuration),
                  error_message |-> <<>>]]

ParseStart(filePath) ==
    [name |-> "", uri |-> filePath, currentScenario |-> <<>>,
     backgroundSteps |-> <<>>, scenarios |-> <<>>, objs |-> <<>>]

PushCurrent(st) == st.scenarios \o st.currentScenario

ParseLine(st, line) ==
    LET t == Trim(line) IN
    IF StartsWith(t, "Feature:") THEN [st EXCEPT !.name = AfterPrefix(t)]
    ELSE IF StartsWith(t, "Background:") THEN [st EXCEPT !.backgroundSteps = <<>>]
    ELSE IF StartsWith(t, "Scenario:") THEN
        [st EXCEPT !.scenarios = PushCurrent(st),
                   !.currentScenario = <<[keyword |-> "Scenario",
                                          name |-> AfterPrefix(t),
                                          steps |-> st.backgroundSteps]>>]
    ELSE IF StepMatch(t) THEN
        LET ref == Len(st.objs) + 1
            withObj == [st EXCEPT !.objs = Append(st.objs, NewStep(t))]
        IN  IF st.currentScenario # <<>>
            THEN [withObj EXCEPT !.currentScenario[1].steps = Append(@, ref)]
            ELSE [withObj EXCEPT !.backgroundSteps = Append(@, ref)]
    ELSE st

RECURSIVE ParseLines(_, _)
ParseLines(st, lines) ==
    IF lines = <<>> THEN st
    ELSE ParseLines(ParseLine(st, Head(lines)), Tail(lines))

FeatureOf(st) ==
    [keyword |-> "Feature", name |-> st.name, uri |-> st.uri,
     elements |-> PushCurrent(st), objs |-> st.objs]

ParseFeatureFileKeepsFirstName(content, filePath) ==
    LET st == ParseLines(ParseStart(filePath), content)
        named == SelectSeq(content, LAMBDA l : StartsWith(Trim(l), "Feature:")
                                               /\ AfterPrefix(Trim(l)) # "")
    IN  IF named # <<>> THEN [FeatureOf(st) EXCEPT !.name = AfterPrefix(Trim(named[1]))]
        ELSE Null

ParseFeatureFile(content, filePath) ==
    LET st == ParseLines(ParseStart(filePath), content)
    IN  IF st.name # "" THEN FeatureOf(st) ELSE Null

(***************************************************************************)
(* Paths.  A path is its directory, the stem of its base name (a sequence  *)
(* of name fragments) and its extension.                                   *)
(***************************************************************************)
NoSpec == [dir |-> "", stem |-> <<>>, ext |-> ""]

EndsWithFeature(name) == name.ext = ".feature"

\* path.basename(p)
Basename(p) == [stem |-> p.stem, ext |-> p.ext]

\* path.basename(p, '.feature')
BasenameNoFeature(p) ==
    IF p.ext = ".feature" THEN p.stem ELSE Append(p.stem, p.ext)

IsSuffix(s, t) ==
    Len(s) <= Len(t) /\ SubSeq(t, Len(t) - Len(s) + 1, Len(t)) = s

\* run.spec.name.includes(path.basename(featureFile))
NameIncludes(name, base) == name.ext = base.ext /\ IsSuffix(base.stem, name.stem)

\* glob.sync(`cypress/e2e/features/**/${fileName}`): the files of the
\* feature tree with that base name, in the tree's order.
GlobSync(tree, fileName) ==
    SelectSeq(tree, LAMBDA f : Basename(f.path) = fileName)

(***************************************************************************)
(* getTestResultsForFeature                                                *)
(***************************************************************************)
LastTitle(test, default) ==
    IF Len(test.title) > 0 THEN test.title[Len(test.title)] ELSE default

StatusOfState(state) ==
    IF state = "passed" THEN "passed"
    ELSE IF state = "pending" THEN "skipped"
    ELSE "failed"

TestResultOf(test) ==
    [status |-> StatusOfState(test.state),
     duration |-> MsToNs(test.duration),
     error_message |-> test.displayError]

RECURSIVE CollectTests(_, _)
CollectTests(testResults, tests) ==
    IF tests = <<>> THEN testResults
    ELSE LET test == Head(tests)
             scenarioName == LastTitle(test, "")
             others == [k \in DOMAIN testResults \ {scenarioName} |-> testResults[k]]
         IN  CollectTests((scenarioName :> TestResultOf(test)) @@ others, Tail(tests))

RECURSIVE CollectRuns(_, _, _)
CollectRuns(testResults, runs, featureFile) ==
    IF runs = <<>> THEN testResults
    ELSE LET run == Head(runs)
             next ==
                 IF run.spec # NoSpec /\ NameIncludes(run.spec, Basename(featureFile))
                 THEN CollectTests(testResults, run.tests)
                 ELSE testResults
         IN  CollectRuns(next, Tail(runs), featureFile)

GetTestResultsForFeature(results, featureFile) ==
    CollectRuns(<<>>, results.runs, featureFile)

(***************************************************************************)
(* detectFailedStepFromError and mergeFeatureWithResults.  Step indexes    *)
(* are the source's, counted from 0.                                       *)
(***************************************************************************)
DetectFailedStepFromError(errorMessage, steps) ==
    IF errorMessage = <<>> THEN Len(steps) - 1
    ELSE IF Includes(errorMessage, "expected 1 to equal 2")
            \/ Includes(errorMessage, "expect(1).to.eq(2)") THEN 1
    ELSE IF Includes(errorMessage, "expected 1 to equal 0")
            \/ Includes(errorMessage, "expect(1).to.equal(0)") THEN 1
    ELSE Len(steps) - 1

\* The body of the forEach over a matched scenario's steps: the new result
\* of the step object at (0-based) index, given its old result.
MergedResultFailedSharesDuration(old, index, stepCount, failedStepIndex, scenarioResult) ==
    LET D == scenarioResult.duration IN
    IF scenarioResult.status = "passed" THEN
        [old EXCEPT !.status = "passed", !.duration = RatDivInt(D, stepCount)]
    ELSE IF scenarioResult.status = "skipped" THEN
        [old EXCEPT !.status = "skipped", !.duration = RatZero]
    ELSE IF index < failedStepIndex THEN
        [old EXCEPT !.status = "passed", !.duration = RatDivInt(D, stepCount)]
    ELSE IF index = failedStepIndex THEN
        [old EXCEPT !.status = "failed", !.duration = RatDivInt(D, stepCount),
                    !.error_message = IF scenarioResult.error_message # <<>>
                                      THEN scenarioResult.error_message ELSE @]
    ELSE [old EXCEPT !.status = "skipped", !.duration = RatZero]

MergedResult(old, index, stepCount, failedStepIndex, scenarioResult) ==
    LET D == scenarioResult.duration IN
    IF scenarioResult.status = "passed" THEN
        [old EXCEPT !.status = "passed", !.duration = RatDivInt(D, stepCount)]
    ELSE IF scenarioResult.status = "skipped" THEN
        [old EXCEPT !.status = "skipped", !.duration = RatZero]
    ELSE IF index < failedStepIndex THEN
        [old EXCEPT !.status = "passed", !.duration = RatDivInt(D, stepCount)]
    ELSE IF index = failedStepIndex THEN
        [old EXCEPT !.status = "failed", !.duration = D,
                    !.error_message = IF scenarioResult.error_message # <<>>
                                      THEN scenarioResult.error_message ELSE @]
    ELSE [old EXCEPT !.status = "skipped", !.duration = RatZero]

RECURSIVE MergeSteps(_, _, _, _, _)
MergeSteps(objs, steps, pos, failedStepIndex, scenarioResult) ==
    IF pos > Len(steps) THEN objs
    ELSE LET ref == steps[pos]
             new == MergedResult(objs[ref].result, pos - 1, Len(steps),
                                 failedStepIndex, scenarioResult)
         IN  MergeSteps([objs EXCEPT ![ref].result = new], steps, pos + 1,
                        failedStepIndex, scenarioResult)

MergeScenario(objs, scenario, testResults) ==
    IF scenario.name \notin DOMAIN testResults THEN objs
    ELSE LET scenarioResult == testResults[scenario.name]
             failedStepIndex ==
                 DetectFailedStepFromError(scenarioResult.error_message, scenario.steps)
         IN  MergeSteps(objs, scenario.steps, 1, failedStepIndex, scenarioResult)

RECURSIVE MergeScenarios(_, _, _)
MergeScenarios(objs, scenarios, testResults) ==
    IF scenarios = <<>> THEN objs
    ELSE MergeScenarios(MergeScenario(objs, Head(scenarios), testResults),
                        Tail(scenarios), testResults)

MergeFeatureWithResults(feature, testResults) ==
    [feature EXCEPT !.objs = MergeScenarios(feature.objs, feature.elements, testResults)]

(***************************************************************************)
(* JSON.stringify of a feature: every step reference is written out as     *)
(* the object it refers to.                                                *)
(***************************************************************************)
StringifyScenario(scenario, objs) ==
    [keyword |-> scenario.keyword, name |-> scenario.name,
     steps |-> [i \in 1..Len(scenario.steps) |-> objs[scenario.steps[i]]]]

StringifyFeature(feature) ==
    [keyword |-> feature.keyword, name |-> feature.name, uri |-> feature.uri,
     elements |-> [i \in 1..Len(feature.elements) |->
                      StringifyScenario(feature.elements[i], feature.objs)]]

Stringify(features) == [i \in 1..Len(features) |-> StringifyFeature(features[i])]

(***************************************************************************)
(* parseFeatureFilesAndCreateJson                                          *)
(***************************************************************************)
\* runFeatureFiles: the first glob match of every '.feature' run, as a Set
\* (insertion order, no duplicates).
RECURSIVE RunFeatureFiles(_, _, _)
RunFeatureFiles(found, runs, tree) ==
    IF runs = <<>> THEN found
    ELSE LET run == Head(runs)
             foundFiles == IF run.spec # NoSpec /\ EndsWithFeature(run.spec)
                           THEN GlobSync(tree, Basename(run.spec)) ELSE <<>>
             next == IF foundFiles # <<>>
                        /\ ~ \E i \in 1..Len(found) : found[i] = foundFiles[1]
                     THEN Append(found, foundFiles[1]) ELSE found
         IN  RunFeatureFiles(next, Tail(runs), tree)

RECURSIVE ProcessFeatureFiles(_, _, _)
ProcessFeatureFiles(cucumberFeatures, featureFiles, results) ==
    IF featureFiles = <<>> THEN cucumberFeatures
    ELSE LET featureFile == Head(featureFiles)
             parsedFeature == ParseFeatureFile(featureFile.content, featureFile.path)
             next ==
                 IF parsedFeature # Null
                 THEN Append(cucumberFeatures,
                             MergeFeatureWithResults(parsedFeature,
                                 GetTestResultsForFeature(results, featureFile.path)))
                 ELSE cucumberFeatures
         IN  ProcessFeatureFiles(next, Tail(featureFiles), results)

ParseFeatureFilesAndCreateJson(results, tree) ==
    ProcessFeatureFiles(<<>>, RunFeatureFiles(<<>>, results.runs, tree), results)

(***************************************************************************)
(* createFallbackCucumberJson                                              *)
(***************************************************************************)
NoUri == [dir |-> "", stem |-> <<>>, ext |-> ""]

FallbackStep(test) ==
    [keyword |-> "Given",
     name    |-> LastTitle(test, "Unknown Step"),
     result  |-> [status |-> IF test.state = "passed" THEN "passed" ELSE "failed",
                  duration |-> MsToNs(test.duration),
                  error_message |-> test.displayError]]

FallbackFeature(run) ==
    [keyword  |-> "Feature",
     name     |-> <<BasenameNoFeature(run.spec), ": Feature from ", run.spec>>,
     uri      |-> NoUri,
     elements |-> [i \in 1..Len(run.tests) |->
                      [keyword |-> "Scenario",
                       name |-> LastTitle(run.tests[i], "Unknown Scenario"),
                       steps |-> <<i>>]],
     objs     |-> [i \in 1..Len(run.tests) |-> FallbackStep(run.tests[i])]]

RECURSIVE CreateFallbackCucumberJsonKeepsSpecless(_)
CreateFallbackCucumberJsonKeepsSpecless(runs) ==
    IF runs = <<>> THEN <<>>
    ELSE <<FallbackFeature(Head(runs))>> \o CreateFallbackCucumberJsonKeepsSpecless(Tail(runs))

RECURSIVE CreateFallbackCucumberJson(_)
CreateFallbackCucumberJson(runs) ==
    IF runs = <<>> THEN <<>>
    ELSE (IF Head(runs).spec = NoSpec THEN <<>> ELSE <<FallbackFeature(Head(runs))>>)
         \o CreateFallbackCucumberJson(Tail(runs))

(***************************************************************************)
(* ReportStatistics.generateStatistics, over the features read back from   *)
(* the JSON file.                                                          *)
(***************************************************************************)
RECURSIVE Flatten(_)
Flatten(seqs) == IF seqs = <<>> THEN <<>> ELSE Head(seqs) \o Flatten(Tail(seqs))

AllScenarios(features) ==
    Flatten([i \in 1..Len(features) |-> features[i].elements])

AllSteps(scenarios) ==
    Flatten([i \in 1..Len(scenarios) |-> scenarios[i].steps])

HasStatus(scenario, status) ==
    \E i \in 1..Len(scenario.steps) : scenario.steps[i].result.status = status

\* The duration a step adds to the total: its own, or an estimate when it
\* has none (or 0).
StepDurationOrEstimate(step) ==
    IF step.result.duration # RatZero THEN step.result.duration
    ELSE MsToNs(IF step.result.status = "failed" THEN 2000 ELSE 500)

RECURSIVE SumDurations(_)
SumDurations(steps) ==
    IF steps = <<>> THEN RatZero
    ELSE RatAdd(StepDurationOrEstimate(Head(steps)), SumDurations(Tail(steps)))

\* Math.round((passed / total) * 100)
PassRateTruncates(passed, total) ==
    IF total > 0 THEN (passed * 100) \div total ELSE 0

PassRate(passed, total) ==
    IF total > 0 THEN RatRound(Rat(passed * 100, total)) ELSE 0

GenerateStatistics(features) ==
    LET scenarios == AllScenarios(features)
        steps == AllSteps(scenarios)
        failed == Len(SelectSeq(scenarios, LAMBDA sc : HasStatus(sc, "failed")))
        skipped == Len(SelectSeq(scenarios, LAMBDA sc : ~HasStatus(sc, "failed")
                                                       /\ HasStatus(sc, "skipped")))
        passed == Len(SelectSeq(scenarios, LAMBDA sc : ~HasStatus(sc, "failed")
                                                      /\ ~HasStatus(sc, "skipped")))
    IN  [totalScenarios   |-> Len(scenarios),
         passedScenarios  |-> passed,
         failedScenarios  |-> failed,
         skippedScenarios |-> skipped,
         totalSteps   |-> Len(steps),
         passedSteps  |-> Len(SelectSeq(steps, LAMBDA st : st.result.status = "passed")),
         failedSteps  |-> Len(SelectSeq(steps, LAMBDA st : st.result.status = "failed")),
         skippedSteps |-> Len(SelectSeq(steps, LAMBDA st : st.result.status = "skipped")),
         totalDuration |-> RatRound(SumDurations(steps)),
         passRate |-> PassRate(passed, Len(scenarios))]

NoStats == [totalScenarios |-> -1]

\* ReportStatistics.getScenarioStatus
GetScenarioStatusSkippedFirst(scenario) ==
    IF \E i \in 1..Len(scenario.steps) : scenario.steps[i].result.status = "skipped"
    THEN "skipped"
    ELSE IF \E i \in 1..Len(scenario.steps) : scenario.steps[i].result.status = "failed"
    THEN "failed"
    ELSE "passed"

GetScenarioStatus(scenario) ==
    IF \E i \in 1..Len(scenario.steps) : scenario.steps[i].result.status = "failed"
    THEN "failed"
    ELSE IF \E i \in 1..Len(scenario.steps) : scenario.steps[i].result.status = "skipped"
    THEN "skipped"
    ELSE "passed"

(***************************************************************************)
(* Names of files and tests, for the matching of screenshots.  A name is   *)
(* the sequence of its tokens: a word, or one of " ", "_", "--", "(", ")", *)
(* ".", "/" and ".png".  The words are chosen so that none is a part of    *)
(* another: one name is a substring of another exactly when its tokens are *)
(* a contiguous part of the other's.                                       *)
(***************************************************************************)
Tokens(name) ==
    CASE name = "Login Test" -> <<"Login", " ", "Test">>
      [] name = "login test" -> <<"login", " ", "test">>
      [] name = "Test" -> <<"Test">>
      [] name = "Create a new user" -> <<"Create", " ", "a", " ", "new", " ", "user">>
      [] name = "" -> <<>>
      [] OTHER -> <<name>>

ToLowerCase(token) ==
    CASE token = "Login" -> "login"
      [] token = "Test" -> "test"
      [] token = "Create" -> "create"
      [] token = "Failed" -> "failed"
      [] OTHER -> token

\* The token with its first letter in upper case.
UpperFirst(token) ==
    CASE token = "login" -> "Login"
      [] token = "test" -> "Test"
      [] token = "create" -> "Create"
      [] token = "failed" -> "Failed"
      [] token = "feature" -> "Feature"
      [] token = "a" -> "A"
      [] token = "new" -> "New"
      [] token = "user" -> "User"
      [] OTHER -> token

RECURSIVE DropLeading(_, _)
DropLeading(text, token) ==
    IF text # <<>> /\ Head(text) = token THEN DropLeading(Tail(text), token) ELSE text

\* Every run of `token' replaced by one `by'.
RECURSIVE Squeeze(_, _, _)
Squeeze(text, token, by) ==
    IF text = <<>> THEN <<>>
    ELSE IF Head(text) = token THEN <<by>> \o Squeeze(DropLeading(text, token), token, by)
    ELSE <<Head(text)>> \o Squeeze(Tail(text), token, by)

Reverse(text) == [i \in 1..Len(text) |-> text[Len(text) + 1 - i]]

\* String.prototype.trim
TrimSpaces(text) == Reverse(DropLeading(Reverse(DropLeading(text, " ")), " "))

\* String.prototype.includes
IncludesText(text, part) ==
    \E i \in 0..(Len(text) - Len(part)) : SubSeq(text, i + 1, i + Len(part)) = part

LowerText(text) == [i \in 1..Len(text) |-> ToLowerCase(text[i])]

(***************************************************************************)
(* copyScreenshotsToReportDir: the files of cypress/screenshots copied     *)
(* into the report directory under cleaned names.  A file is the name of   *)
(* its directory (<<>> for the top directory) and its own name.            *)
(***************************************************************************)
\* item.replace(/\s+--\s+/g, '_')
RECURSIVE ReplaceDashes(_)
ReplaceDashes(item) ==
    IF item = <<>> THEN <<>>
    ELSE LET rest == DropLeading(item, " ")
         IN  IF Head(item) = " " /\ Len(rest) >= 2 /\ rest[1] = "--" /\ rest[2] = " "
             THEN <<"_">> \o ReplaceDashes(DropLeading(Tail(rest), " "))
             ELSE <<Head(item)>> \o ReplaceDashes(Tail(item))

CleanFileName(item) ==
    LET dashes == ReplaceDashes(item)
        spaces == Squeeze(dashes, " ", "_")
        parens == SelectSeq(spaces, LAMBDA token : token \notin {"(", ")"})
        underscores == Squeeze(parens, "_", "_")
    IN  LowerText(underscores)

\* item.replace(/[^a-zA-Z0-9.-]/g, '_')
CleanDirName(item) ==
    [i \in 1..Len(item) |-> IF item[i] \in {" ", "(", ")", "/"} THEN "_" ELSE item[i]]

CopyDirectoryRecursive(files) ==
    [i \in 1..Len(files) |->
        [dir |-> CleanDirName(files[i].dir), name |-> CleanFileName(files[i].name)]]

(***************************************************************************)
(* ReportHtmlGenerator.findScreenshots                                     *)
(***************************************************************************)
\* A file of readdirSync(dir, {recursive: true}): its path under the
\* screenshots directory of the report.
RelativePath(file) ==
    IF file.dir = <<>> THEN file.name ELSE file.dir \o <<"/">> \o file.name

\* The first place of `part' in `text' that leaves at least one token
\* before it; 0 if there is none.
FirstAfterStart(text, part) ==
    LET places == {i \in 2..(Len(text) - Len(part) + 1) :
                      SubSeq(text, i, i + Len(part) - 1) = part}
    IN  IF places = {} THEN 0 ELSE CHOOSE i \in places : \A j \in places : i <= j

\* The test name a screenshot file stands for.
TestNameOf(file) ==
    LET dash == FirstAfterStart(file, <<"--">>)
        afterDash == SubSeq(file, dash + 1, Len(file))
        failed == FirstAfterStart(afterDash, <<"(", "failed", ")">>)
        cleaned == FirstAfterStart(file, <<"_", "failed">>)
    IN  IF dash > 0 /\ failed > 0 /\ TrimSpaces(SubSeq(afterDash, 1, failed - 1)) # <<>>
        THEN \* /(.+?)\s*--\s*(.+?)\s*\(failed\)/
             TrimSpaces(SubSeq(afterDash, 1, failed - 1))
        ELSE IF cleaned > 0
        THEN \* /(.+?)_failed/, '_' to ' ', /\b\w/ to upper case
             LET words == SubSeq(file, 1, cleaned - 1)
             IN  [i \in 1..Len(words) |->
                     IF words[i] = "_" THEN " " ELSE UpperFirst(words[i])]
        ELSE \* file.replace('.png', '').replace(/_/g, ' ')
             LET stem == SelectSeq(file, LAMBDA token : token # ".png")
             IN  [i \in 1..Len(stem) |-> IF stem[i] = "_" THEN " " ELSE stem[i]]

IsScenarioFailed(testName, failedScenarios) ==
    \/ \E failedScenario \in failedScenarios : Tokens(failedScenario) = testName
    \/ \E failedScenario \in failedScenarios :
          LET cleanTestName == TrimSpaces(LowerText(testName))
              cleanFailedScenario == TrimSpaces(LowerText(Tokens(failedScenario)))
          IN  \/ IncludesText(cleanFailedScenario, cleanTestName)
              \/ IncludesText(cleanTestName, cleanFailedScenario)

\* screenshots[testName].push(relativePath): the record as the sequence of
\* its entries, in the order the keys were inserted.
PushScreenshot(screenshots, testName, relativePath) ==
    IF \E k \in 1..Len(screenshots) : screenshots[k].key = testName
    THEN [k \in 1..Len(screenshots) |->
             IF screenshots[k].key = testName
             THEN [screenshots[k] EXCEPT !.paths = Append(@, relativePath)]
             ELSE screenshots[k]]
    ELSE Append(screenshots, [key |-> testName, paths |-> <<relativePath>>])

FailedScenarios(cucumberData) ==
    LET scenarios == AllScenarios(cucumberData)
    IN  {scenarios[i].name : i \in {j \in 1..Len(scenarios) :
                                       GetScenarioStatus(scenarios[j]) = "failed"}}

RECURSIVE CollectScreenshots(_, _, _)
CollectScreenshots(screenshots, files, failedScenarios) ==
    IF files = <<>> THEN screenshots
    ELSE LET file == RelativePath(Head(files))
             testName == TestNameOf(file)
             next == IF file # <<>> /\ file[Len(file)] = ".png"
                        /\ testName # <<>> /\ IsScenarioFailed(testName, failedScenarios)
                     THEN PushScreenshot(screenshots, testName, file)
                     ELSE screenshots
         IN  CollectScreenshots(next, Tail(files), failedScenarios)

FindScreenshots(files, cucumberData) ==
    CollectScreenshots(<<>>, files, FailedScenarios(cucumberData))

(***************************************************************************)
(* ReportHtmlGenerator.generateScreenshotsSection: the screenshots shown   *)
(* under a scenario; <<>> when the section is left out.                    *)
(***************************************************************************)
CleanedName(text) == TrimSpaces(Squeeze(LowerText(text), " ", " "))

\* The forEach over Object.keys(screenshots): the last similar key wins.
RECURSIVE SimilarScreenshots(_, _, _)
SimilarScreenshots(found, screenshots, cleanedScenarioName) ==
    IF screenshots = <<>> THEN found
    ELSE LET cleanedKey == CleanedName(Head(screenshots).key)
             next == IF \/ IncludesText(cleanedKey, cleanedScenarioName)
                        \/ IncludesText(cleanedScenarioName, cleanedKey)
                     THEN Head(screenshots).paths ELSE found
         IN  SimilarScreenshots(next, Tail(screenshots), cleanedScenarioName)

GenerateScreenshotsSection(scenarioName, screenshots) ==
    LET exact == {k \in 1..Len(screenshots) : screenshots[k].key = Tokens(scenarioName)}
    IN  IF exact # {} THEN screenshots[CHOOSE k \in exact : TRUE].paths
        ELSE SimilarScreenshots(<<>>, screenshots, CleanedName(Tokens(scenarioName)))

\* generateScenariosHtml: a scenario as the report shows it.
ScenarioHtml(scenario, screenshots) ==
    LET status == GetScenarioStatus(scenario)
    IN  [name |-> scenario.name, status |-> status,
         screenshots |-> IF status = "failed"
                         THEN GenerateScreenshotsSection(scenario.name, screenshots)
                         ELSE <<>>]

\* ReportStatistics.getScenarioDuration
GetScenarioDuration(scenario) == RatRound(SumDurations(scenario.steps))

\* tests.sort((a, b) => b.duration - a.duration), a stable sort of the
\* array built by the call.
RECURSIVE SortByDuration(_)
SortByDuration(tests) ==
    IF tests = <<>> THEN <<>>
    ELSE LET sorted == SortByDuration(SubSeq(tests, 1, Len(tests) - 1))
             last == tests[Len(tests)]
             before == SelectSeq(sorted, LAMBDA t : t.duration >= last.duration)
             after == SelectSeq(sorted, LAMBDA t : t.duration < last.duration)
         IN  before \o <<last>> \o after

\* ReportStatistics.getSlowestTests
GetSlowestTests(features) ==
    LET scenarios == AllScenarios(features)
        tests == [i \in 1..Len(scenarios) |->
                     [name |-> scenarios[i].name,
                      duration |-> GetScenarioDuration(scenarios[i])]]
        sorted == SortByDuration(tests)
    IN  SubSeq(sorted, 1, IF Len(sorted) < 5 THEN Len(sorted) ELSE 5)

\* ReportStatistics.getFeatureStats
GetFeatureStatsDropsSkipped(feature) ==
    LET scenarios == feature.elements
        Count(status) ==
            Len(SelectSeq(scenarios, LAMBDA sc : GetScenarioStatus(sc) = status))
    IN  [passed |-> Count("passed"), failed |-> Count("failed"),
         skipped |-> Count("pending"),
         duration |-> RatRound(SumDurations(AllSteps(scenarios)))]

GetFeatureStats(feature) ==
    LET scenarios == feature.elements
        Count(status) ==
            Len(SelectSeq(scenarios, LAMBDA sc : GetScenarioStatus(sc) = status))
    IN  [passed |-> Count("passed"), failed |-> Count("failed"),
         skipped |-> Count("skipped"),
         duration |-> RatRound(SumDurations(AllSteps(scenarios)))]

\* error.includes(word), for the fragments error texts are made of.
ErrorIncludes(error, word) ==
    \E i \in 1..Len(error) :
        \/ error[i] = word
        \/ error[i] = "AssertionError: " /\ word = "AssertionError"
        \/ error[i] = "Timed out retrying after 4000ms" /\ word = "Timed out"

ErrorType(error) ==
    IF ErrorIncludes(error, "AssertionError") THEN "Assertion Error"
    ELSE IF ErrorIncludes(error, "TypeError") THEN "Type Error"
    ELSE IF ErrorIncludes(error, "RangeError") THEN "Range Error"
    ELSE IF ErrorIncludes(error, "SyntaxError") THEN "Syntax Error"
    ELSE IF ErrorIncludes(error, "CypressError") THEN "Cypress Error"
    ELSE IF ErrorIncludes(error, "NetworkError") \/ ErrorIncludes(error, "ENOTFOUND")
    THEN "Network Error"
    ELSE IF ErrorIncludes(error, "Timed out") THEN "Timeout Error"
    ELSE IF ErrorIncludes(error, "not found") \/ ErrorIncludes(error, "not visible")
    THEN "Element Error"
    ELSE "Unknown Error"

\* errorCounts, as the sequence of its entries in the order of insertion.
RECURSIVE CountErrors(_, _)
CountErrors(errorCounts, steps) ==
    IF steps = <<>> THEN errorCounts
    ELSE LET step == Head(steps)
             errorType == ErrorType(step.result.error_message)
             next ==
                 IF step.result.status = "failed" /\ step.result.error_message # <<>>
                 THEN IF \E k \in 1..Len(errorCounts) : errorCounts[k].type = errorType
                      THEN [k \in 1..Len(errorCounts) |->
                               IF errorCounts[k].type = errorType
                               THEN [errorCounts[k] EXCEPT !.count = @ + 1]
                               ELSE errorCounts[k]]
                      ELSE Append(errorCounts, [type |-> errorType, count |-> 1])
                 ELSE errorCounts
         IN  CountErrors(next, Tail(steps))

\* .sort((a, b) => b.count - a.count), a stable sort of the entries.
RECURSIVE SortByCount(_)
SortByCount(entries) ==
    IF entries = <<>> THEN <<>>
    ELSE LET sorted == SortByCount(SubSeq(entries, 1, Len(entries) - 1))
             last == entries[Len(entries)]
             before == SelectSeq(sorted, LAMBDA e : e.count >= last.count)
             after == SelectSeq(sorted, LAMBDA e : e.count < last.count)
         IN  before \o <<last>> \o after

\* ReportStatistics.getTopErrors
GetTopErrors(features) ==
    LET sorted == SortByCount(CountErrors(<<>>, AllSteps(AllScenarios(features))))
    IN  SubSeq(sorted, 1, IF Len(sorted) < 5 THEN Len(sorted) ELSE 5)

\* A number of the page's script: a rational, or the outcome of a division
\* by zero.
NaN == [n |-> 0, d |-> 0]
Infinity == [n |-> 1, d |-> 0]

\* a / b, for non-negative integers.
Divide(a, b) ==
    IF b # 0 THEN Rat(a, b) ELSE IF a = 0 THEN NaN ELSE Infinity

\* Math.round(q * 100)
RoundPercent(q) ==
    IF q.d = 0 THEN q ELSE Rat(RatRound(Rat(q.n * 100, q.d)), 1)

\* ReportStatistics.formatDuration: the number shown and its unit; for
\* minutes, also the remaining seconds.  No comparison holds of NaN.
FormatDuration(milliseconds) ==
    IF milliseconds = NaN THEN [number |-> NaN, unit |-> "s", seconds |-> 0]
    ELSE IF milliseconds = Infinity
    THEN [number |-> Infinity, unit |-> "m s", seconds |-> 0]
    ELSE IF milliseconds.n < 1000 * milliseconds.d
    THEN [number |-> milliseconds, unit |-> "ms", seconds |-> 0]
    ELSE LET seconds == milliseconds.n \div (1000 * milliseconds.d)
             minutes == seconds \div 60
         IN  IF minutes > 0
             THEN [number |-> Rat(minutes, 1), unit |-> "m s", seconds |-> seconds % 60]
             ELSE [number |-> Rat(seconds, 1), unit |-> "s", seconds |-> 0]

\* ReportHtmlGenerator.generatePerformanceSection
GeneratePerformanceSection(stats, features) ==
    [avgDuration |-> FormatDuration(Divide(stats.totalDuration, stats.totalScenarios)),
     successRate |-> RoundPercent(Divide(stats.passedScenarios, stats.totalScenarios)),
     totalSteps |-> stats.totalSteps,
     features |-> Len(features)]

\* ReportHtmlGenerator.generateReport: what is written to test-report.html.
\* The page shows the statistics of each feature, the scenarios, the top
\* errors and the slowest tests, and embeds the feature list for export as
\* it stands once the page's other parts are rendered.
GenerateReportSortsFeatures(cucumberData, files) ==
    LET screenshots == FindScreenshots(files, cucumberData)
        scenarios == AllScenarios(cucumberData)
    IN  [exists |-> TRUE,
         scenarios |-> [i \in 1..Len(scenarios) |-> ScenarioHtml(scenarios[i], screenshots)],
         featureStats |-> [f \in 1..Len(cucumberData) |-> GetFeatureStats(cucumberData[f])],
         topErrors |-> GetTopErrors(cucumberData),
         slowestTests |-> GetSlowestTests(cucumberData),
         performance |-> GeneratePerformanceSection(GenerateStatistics(cucumberData),
                                                    cucumberData),
         features |-> [f \in 1..Len(cucumberData) |->
                          [cucumberData[f] EXCEPT !.elements =
                              [i \in 1..Len(@) |-> @[Len(@) + 1 - i]]]]]

GenerateReport(cucumberData, files) ==
    LET screenshots == FindScreenshots(files, cucumberData)
        scenarios == AllScenarios(cucumberData)
    IN  [exists |-> TRUE,
         scenarios |-> [i \in 1..Len(scenarios) |-> ScenarioHtml(scenarios[i], screenshots)],
         featureStats |-> [f \in 1..Len(cucumberData) |-> GetFeatureStats(cucumberData[f])],
         topErrors |-> GetTopErrors(cucumberData),
         slowestTests |-> GetSlowestTests(cucumberData),
         performance |-> GeneratePerformanceSection(GenerateStatistics(cucumberData),
                                                    cucumberData),
         features |-> cucumberData]

(***************************************************************************)
(* The file system calls on one file.                                      *)
(***************************************************************************)
NoFile == [exists |-> FALSE, data |-> <<>>]

\* fs.unlinkSync
UnlinkSync(file) == NoFile

\* fs.writeFileSync
WriteFileSyncAppends(file, data) == [exists |-> TRUE, data |-> file.data \o data]

WriteFileSync(file, data) == [exists |-> TRUE, data |-> data]

NoReport == [exists |-> FALSE]

(***************************************************************************)
(* State.                                                                  *)
(***************************************************************************)
VARIABLES
    featureTree,    \* the feature files under cypress/e2e/features, in glob order
    results,        \* the results object the runner hands to the after:run hook
    pc,             \* the hook's position: "run", "converted", "reported",
                    \* "skipped" (returned without a report), "threw";
                    \* "called" and "returned" or "raised" for a call of
                    \* generateCucumberHtmlReport outside the hook
    cucumberJson,   \* cypress/reports/json/cucumber-report.json
    log,            \* the console messages of the hook so far
    stats,          \* the statistics of the rendered report
    screenshotsDir, \* the files of cypress/screenshots, in readdir order
    htmlReport,     \* cypress/reports/tailwind-html-report/test-report.html
    runNumber,      \* the number of the runner's current run
    origin,         \* history: the run that wrote each artifact on disk (0:
                    \* none), the results the JSON was written from, the
                    \* JSON it replaced, and the JSON the report was
                    \* rendered from
    apiClient,      \* a BaseApiClient and its request in flight
    authStrategy,   \* the client's SessionAuthStrategy
    logger          \* the TestLogger singleton

\* The state of the after:run hook, and that of the test support classes.
hookVars == <<featureTree, results, pc, cucumberJson, log, stats,
              screenshotsDir, htmlReport, runNumber, origin>>

supportVars == <<apiClient, authStrategy, logger>>

vars == <<hookVars, supportVars>>

(***************************************************************************)
(* convertCypressResultsToCucumberJson, awaited by the after:run hook when *)
(* the results hold 'runs'.                                                *)
(***************************************************************************)
ConvertCypressResultsToCucumberJsonAppends ==
    /\ pc = "run"
    /\ "runs" \in DOMAIN results
    /\ LET cucumberFeatures == ParseFeatureFilesAndCreateJson(results, featureTree)
       IN  IF Len(cucumberFeatures) > 0
           THEN /\ cucumberJson' = WriteFileSync(cucumberJson,
                                        cucumberJson.data \o Stringify(cucumberFeatures))
                /\ log' = Append(log, "Cucumber JSON generated")
           ELSE /\ cucumberJson' =
                       WriteFileSync(cucumberJson,
                                     cucumberJson.data
                                       \o Stringify(CreateFallbackCucumberJson(results.runs)))
                /\ log' = Append(log, "Final fallback Cucumber JSON generated")
    /\ pc' = "converted"
    /\ origin' = [origin EXCEPT !.json = runNumber, !.results = results,
                                !.replaced = IF cucumberJson.exists
                                             THEN [results |-> origin.results,
                                                   data |-> cucumberJson.data]
                                             ELSE Null]
    /\ UNCHANGED supportVars
    /\ UNCHANGED <<featureTree, results, stats, screenshotsDir, htmlReport, runNumber>>

ConvertCypressResultsToCucumberJson ==
    /\ pc = "run"
    /\ "runs" \in DOMAIN results
    /\ LET cucumberFeatures == ParseFeatureFilesAndCreateJson(results, featureTree)
           unlinked == IF cucumberJson.exists THEN UnlinkSync(cucumberJson)
                       ELSE cucumberJson
       IN  IF Len(cucumberFeatures) > 0
           THEN /\ cucumberJson' = WriteFileSync(unlinked, Stringify(cucumberFeatures))
                /\ log' = Append(log, "Cucumber JSON generated")
           ELSE /\ cucumberJson' =
                       WriteFileSync(unlinked,
                                     Stringify(CreateFallbackCucumberJson(results.runs)))
                /\ log' = Append(log, "Final fallback Cucumber JSON generated")
    /\ pc' = "converted"
    /\ origin' = [origin EXCEPT !.json = runNumber, !.results = results,
                                !.replaced = IF cucumberJson.exists
                                             THEN [results |-> origin.results,
                                                   data |-> cucumberJson.data]
                                             ELSE Null]
    /\ UNCHANGED supportVars
    /\ UNCHANGED <<featureTree, results, stats, screenshotsDir, htmlReport, runNumber>>

(***************************************************************************)
(* generateCucumberHtmlReport -> ReportHtmlGenerator.generateReport        *)
(***************************************************************************)
GenerateCucumberHtmlReportRendersAnyway ==
    /\ pc \in {"converted", "called"}
    /\ stats' = GenerateStatistics(cucumberJson.data)
    /\ htmlReport' = GenerateReport(cucumberJson.data,
                                    CopyDirectoryRecursive(screenshotsDir))
    /\ log' = Append(log, "Tailwind HTML Report generated")
    /\ origin' = [origin EXCEPT !.html = runNumber, !.htmlFrom = origin.json]
    /\ pc' = IF pc = "called" THEN "returned" ELSE "reported"
    /\ UNCHANGED supportVars
    /\ UNCHANGED <<featureTree, results, cucumberJson, screenshotsDir, runNumber>>

GenerateCucumberHtmlReport ==
    /\ pc \in {"converted", "called"}
    /\ IF ~cucumberJson.exists
       THEN /\ log' = Append(log, "Cucumber JSON report not found")
            /\ stats' = NoStats
            /\ htmlReport' = NoReport
            /\ origin' = [origin EXCEPT !.html = 0, !.htmlFrom = 0]
       ELSE /\ stats' = GenerateStatistics(cucumberJson.data)
            /\ htmlReport' = GenerateReport(cucumberJson.data,
                                            CopyDirectoryRecursive(screenshotsDir))
            /\ log' = Append(log, "Tailwind HTML Report generated")
            /\ origin' = [origin EXCEPT !.html = runNumber, !.htmlFrom = origin.json]
    /\ pc' = IF pc = "called" THEN "returned" ELSE "reported"
    /\ UNCHANGED supportVars
    /\ UNCHANGED <<featureTree, results, cucumberJson, screenshotsDir, runNumber>>

Next == ConvertCypressResultsToCucumberJson \/ GenerateCucumberHtmlReport

(***************************************************************************)
(* Inputs: feature files on disk and the runner's results.                 *)
(***************************************************************************)
SeqsUpTo(S, n) == UNION {[1..k -> S] : k \in 0..n}

LoginPath == [dir |-> "examples/api", stem |-> <<"login">>, ext |-> ".feature"]
NavigationPath == [dir |-> "examples/ui", stem |-> <<"navigation">>, ext |-> ".feature"]
SupportPath == [dir |-> "support", stem |-> <<"e2e">>, ext |-> ".ts"]

FeatureLine(name) == [indent |-> 0, head |-> "Feature:", text |-> name]
BackgroundLine == [indent |-> 2, head |-> "Background:", text |-> ""]
ScenarioLine(name) == [indent |-> 2, head |-> "Scenario:", text |-> name]
TagLine == [indent |-> 2, head |-> "@smoke", text |-> ""]

ScenarioNames == <<"Login Test", "Create a new user">>

StepWords == <<"Given", "When", "Then", "And", "But">>
StepTexts == <<"I am logged in via API", "I have new user data",
               "I create a new user via API", "the user should be created successfully">>

\* The k-th step line of a generated file (k = 0, 1, ...).
StepLine(k) ==
    [indent |-> 4, head |-> StepWords[(k % Len(StepWords)) + 1],
     text |-> StepTexts[(k % Len(StepTexts)) + 1]]

StepLines(from, count) == [i \in 1..count |-> StepLine(from + i - 1)]

\* A well-formed feature file: the Feature line, a Background of
\* `background' steps (if any), then one tagged Scenario per entry of
\* `stepCounts', named after ScenarioNames.
RECURSIVE ScenarioBlocks(_, _, _)
ScenarioBlocks(stepCounts, index, from) ==
    IF index > Len(stepCounts) THEN <<>>
    ELSE <<TagLine, ScenarioLine(ScenarioNames[index])>>
         \o StepLines(from, stepCounts[index])
         \o ScenarioBlocks(stepCounts, index + 1, from + stepCounts[index])

FeatureText(featureName, background, stepCounts) ==
    <<FeatureLine(featureName)>>
    \o (IF background > 0 THEN <<BackgroundLine>> \o StepLines(0, background) ELSE <<>>)
    \o ScenarioBlocks(stepCounts, 1, background)

GeneratedTexts(featureName) ==
    {FeatureText(featureName, b, c) :
        b \in 0..MaxBackground, c \in SeqsUpTo(0..MaxSteps, Len(ScenarioNames))}

\* The lines a free-text feature file is made of.
TextLines ==
    {FeatureLine("API Login"), FeatureLine(""), BackgroundLine,
     ScenarioLine("Login Test"), TagLine,
     [indent |-> 4, head |-> "Given", text |-> "I have new user data"],
     [indent |-> 4, head |-> "And", text |-> "I create a new user via API"],
     [indent |-> 4, head |-> "Then", text |-> ""]}

Outcomes ==
    {[state |-> "passed", displayError |-> <<>>],
     [state |-> "pending", displayError |-> <<>>],
     [state |-> "failed", displayError |-> <<>>],
     [state |-> "failed", displayError |-> <<"AssertionError: ", "expected 1 to equal 2">>],
     [state |-> "failed", displayError |-> <<"expect(1).to.equal(0)", " failed">>],
     [state |-> "failed", displayError |-> <<"Timed out retrying after 4000ms">>]}

\* The duration (ms) of the run record of each scenario of ScenarioNames.
Durations == <<3000, 1000>>

Tests ==
    {[title |-> <<"API Login", ScenarioNames[i]>>, state |-> o.state,
      duration |-> Durations[i], displayError |-> o.displayError] :
        i \in 1..Len(ScenarioNames), o \in Outcomes}

LoginPassed ==
    [title |-> <<"API Login", "Login Test">>, state |-> "passed",
     duration |-> 1000, displayError |-> <<>>]

FewTests ==
    {LoginPassed,
     [title |-> <<>>, state |-> "pending",
      duration |-> 0, displayError |-> <<>>],
     [title |-> <<"API Login", "Create a new user">>, state |-> "failed",
      duration |-> 3000, displayError |-> <<"Timed out retrying after 4000ms">>]}

FewRuns ==
    {[spec |-> s, tests |-> t] :
        s \in {LoginPath, NavigationPath, SupportPath, NoSpec},
        t \in SeqsUpTo(FewTests, MaxTests)}

\* No support class is in use while the hook runs.
NoSupport == apiClient = Null /\ authStrategy = Null /\ logger = Null

\* No artifact is on disk.
NoOrigin == [json |-> 0, results |-> Null, replaced |-> Null, html |-> 0, htmlFrom |-> 0]

InitHook ==
    /\ pc = "run"
    /\ cucumberJson = NoFile
    /\ log = <<>>
    /\ stats = NoStats
    /\ htmlReport = NoReport
    /\ runNumber = 1
    /\ origin = NoOrigin
    /\ NoSupport

\* One generated feature file and its run, with every combination of run
\* records.
InitMerge ==
    /\ featureTree \in {<<[path |-> LoginPath, content |-> c]>> :
                            c \in GeneratedTexts("API Login")}
    /\ results \in {[runs |-> <<[spec |-> LoginPath, tests |-> t]>>] :
                        t \in SeqsUpTo(Tests, MaxTests)}
    /\ screenshotsDir = <<>>
    /\ InitHook

\* Runs with and without a spec, over feature trees that hold the run's
\* file, hold only a file without a Feature name, or are empty.
InitRuns ==
    /\ featureTree \in
         {<<>>,
          <<[path |-> LoginPath, content |-> FeatureText("", 1, <<1>>)]>>,
          <<[path |-> LoginPath, content |-> FeatureText("API Login", 1, <<1>>)]>>}
    /\ results \in {[runs |-> r] : r \in SeqsUpTo(FewRuns, 2)}
    /\ screenshotsDir = <<>>
    /\ InitHook

\* A feature file of arbitrary lines, and its run.
InitText ==
    /\ featureTree \in {<<[path |-> LoginPath, content |-> c]>> :
                            c \in SeqsUpTo(TextLines, MaxLines)}
    /\ results \in {[runs |-> <<[spec |-> LoginPath, tests |-> t]>>] :
                        t \in {<<>>, <<LoginPassed>>}}
    /\ screenshotsDir = <<>>
    /\ InitHook

Init == InitMerge \/ InitRuns

Spec == Init /\ [][Next]_vars

SpecText == InitText /\ [][Next]_vars

(***************************************************************************)
(* A series of runs of the runner over the same feature files, with file   *)
(* system calls that can fail, and calls of generateCucumberHtmlReport     *)
(* outside the hook.                                                       *)
(***************************************************************************)
MaxRuns == 2

\* The after:run hook on results without 'runs' (a failed run, or no
\* results at all): it returns at once.
FailedRunResult == [status |-> "failed"]

AfterRunWithoutRuns ==
    /\ pc = "run"
    /\ "runs" \notin DOMAIN results
    /\ pc' = "skipped"
    /\ UNCHANGED supportVars
    /\ UNCHANGED <<featureTree, results, cucumberJson, log, stats,
                   screenshotsDir, htmlReport, runNumber, origin>>

\* convertCypressResultsToCucumberJson when mkdirSync (line 62),
\* unlinkSync (67) or writeFileSync (74, 81) throws: nothing catches it in
\* the function or in the hook.
ConvertCypressResultsToCucumberJsonThrows ==
    /\ pc = "run"
    /\ "runs" \in DOMAIN results
    /\ \E call \in {"mkdirSync", "unlinkSync", "writeFileSync"} :
          /\ call = "mkdirSync" => ~cucumberJson.exists
          /\ call = "unlinkSync" => cucumberJson.exists
          /\ IF call = "writeFileSync" /\ cucumberJson.exists
             THEN /\ cucumberJson' = UnlinkSync(cucumberJson)
                  /\ origin' = [origin EXCEPT !.json = 0, !.results = Null,
                                              !.replaced = Null]
             ELSE UNCHANGED <<cucumberJson, origin>>
    /\ pc' = "threw"
    /\ UNCHANGED supportVars
    /\ UNCHANGED <<featureTree, results, log, stats, screenshotsDir,
                   htmlReport, runNumber>>

\* generateCucumberHtmlReport when rmSync (line 418) or mkdirSync (423)
\* throws: both are outside the try block.
GenerateCucumberHtmlReportThrows ==
    /\ pc \in {"converted", "called"}
    /\ \E call \in {"rmSync", "mkdirSync"} :
          /\ call = "rmSync" => htmlReport.exists
          /\ IF call = "mkdirSync"
             THEN /\ htmlReport' = NoReport
                  /\ stats' = NoStats
                  /\ origin' = [origin EXCEPT !.html = 0, !.htmlFrom = 0]
             ELSE UNCHANGED <<htmlReport, stats, origin>>
    /\ pc' = IF pc = "called" THEN "raised" ELSE "threw"
    /\ UNCHANGED supportVars
    /\ UNCHANGED <<featureTree, results, cucumberJson, log, screenshotsDir, runNumber>>

\* generateCucumberHtmlReport when generateReport throws (it rethrows what
\* its file system calls throw): caught and logged at lines 437-439.
GenerateCucumberHtmlReportCatches ==
    /\ pc \in {"converted", "called"}
    /\ cucumberJson.exists
    /\ htmlReport' = NoReport
    /\ stats' = NoStats
    /\ origin' = [origin EXCEPT !.html = 0, !.htmlFrom = 0]
    /\ log' = Append(log, "Error generating Tailwind HTML report")
    /\ pc' = IF pc = "called" THEN "returned" ELSE "reported"
    /\ UNCHANGED supportVars
    /\ UNCHANGED <<featureTree, results, cucumberJson, screenshotsDir, runNumber>>

HookDone == pc \in {"reported", "skipped", "threw"}

\* The results of a run: none, or one run of login.feature.
RunResults ==
    {FailedRunResult}
    \cup {[runs |-> <<[spec |-> LoginPath, tests |-> t]>>] :
             t \in {<<>>, <<LoginPassed>>,
                    <<[title |-> <<"API Login", "Login Test">>, state |-> "failed",
                       duration |-> 1000, displayError |-> <<>>],
                      [title |-> <<"API Login", "Create a new user">>, state |-> "passed",
                       duration |-> 3000, displayError |-> <<>>]>>}}

\* The runner runs again: the hook fires with the results of the new run.
AfterRun ==
    /\ pc \in {"reported", "skipped", "threw", "returned", "raised"}
    /\ runNumber < MaxRuns
    /\ runNumber' = runNumber + 1
    /\ results' \in RunResults
    /\ pc' = "run"
    /\ log' = <<>>
    /\ UNCHANGED supportVars
    /\ UNCHANGED <<featureTree, cucumberJson, stats, screenshotsDir, htmlReport, origin>>

\* generateCucumberHtmlReport is exported: a call of it outside the hook.
CallGenerateCucumberHtmlReport ==
    /\ pc \in {"reported", "skipped", "threw"}
    /\ pc' = "called"
    /\ log' = <<>>
    /\ UNCHANGED supportVars
    /\ UNCHANGED <<featureTree, results, cucumberJson, stats, screenshotsDir,
                   htmlReport, runNumber, origin>>

InitSeries ==
    /\ featureTree \in
         {<<>>,
          <<[path |-> LoginPath, content |-> FeatureText("API Login", 0, <<1, 2>>)]>>}
    /\ results \in RunResults
    /\ screenshotsDir = <<>>
    /\ pc \in {"run", "called"}
    /\ cucumberJson = NoFile
    /\ log = <<>>
    /\ stats = NoStats
    /\ htmlReport = NoReport
    /\ runNumber = 1
    /\ origin = NoOrigin
    /\ NoSupport

NextSeries ==
    \/ ConvertCypressResultsToCucumberJson
    \/ GenerateCucumberHtmlReport
    \/ AfterRunWithoutRuns
    \/ ConvertCypressResultsToCucumberJsonThrows
    \/ GenerateCucumberHtmlReportThrows
    \/ GenerateCucumberHtmlReportCatches
    \/ AfterRun
    \/ CallGenerateCucumberHtmlReport

SpecSeries == InitSeries /\ [][NextSeries]_vars

(***************************************************************************)
(* One run with screenshots on disk.                                       *)
(***************************************************************************)
\* The screenshots of cypress/screenshots: two files with cleaned names in
\* the top directory, and one as the runner names it, in the directory of
\* its spec.
ScreenshotFiles ==
    {[dir |-> <<>>, name |-> <<"login", "_", "test", "_", "failed", ".png">>],
     [dir |-> <<>>, name |-> <<"test", "_", "failed", ".png">>],
     [dir |-> <<"login", ".", "feature">>,
      name |-> <<"Login", " ", "Test", " ", "(", "failed", ")", ".png">>]}

ShotScenarioNames == {"Login Test", "login test", "Test"}

\* A feature file of one-step scenarios with the given names.
RECURSIVE NamedScenarios(_)
NamedScenarios(names) ==
    IF names = <<>> THEN <<>>
    ELSE <<ScenarioLine(Head(names)), StepLine(0)>> \o NamedScenarios(Tail(names))

InitShots ==
    /\ \E names \in SeqsUpTo(ShotScenarioNames, 2) :
       \E states \in [1..Len(names) -> {"passed", "failed"}] :
          /\ featureTree = <<[path |-> LoginPath,
                              content |-> <<FeatureLine("API Login")>>
                                          \o NamedScenarios(names)]>>
          /\ results = [runs |-> <<[spec |-> LoginPath,
                                    tests |-> [i \in 1..Len(names) |->
                                                 [title |-> <<"API Login", names[i]>>,
                                                  state |-> states[i],
                                                  duration |-> 1000,
                                                  displayError |-> <<>>]]]>>]
    /\ screenshotsDir \in {files \in SeqsUpTo(ScreenshotFiles, 2) :
                              \A i, j \in 1..Len(files) : i # j => files[i] # files[j]}
    /\ InitHook

SpecShots == InitShots /\ [][Next]_vars

(***************************************************************************)
(* Feature files with the same base name in different directories.         *)
(***************************************************************************)
UiLoginPath == [dir |-> "examples/ui", stem |-> <<"login">>, ext |-> ".feature"]

\* examples/api/login.feature, examples/ui/login.feature and
\* examples/ui/navigation.feature, each with a scenario of two steps and a
\* scenario of one step.
DirFiles ==
    {[path |-> LoginPath, content |-> FeatureText("API Login", 0, <<2, 1>>)],
     [path |-> UiLoginPath, content |-> FeatureText("UI Login", 0, <<2, 1>>)],
     [path |-> NavigationPath, content |-> FeatureText("Navigation", 0, <<2, 1>>)]}

DirRuns ==
    {[spec |-> s, tests |-> t] :
        s \in {LoginPath, UiLoginPath, NavigationPath},
        t \in {<<>>, <<LoginPassed>>,
               <<[title |-> <<"Login", "Login Test">>, state |-> "failed",
                  duration |-> 3000,
                  displayError |-> <<"Timed out retrying after 4000ms">>]>>,
               <<[title |-> <<"Login", "Login Test">>, state |-> "pending",
                  duration |-> 0, displayError |-> <<>>],
                 [title |-> <<"Login", "Create a new user">>, state |-> "passed",
                  duration |-> 1000, displayError |-> <<>>]>>}}

\* The tree lists every file once; every run is of a different spec, whose
\* file is in the tree.
InitDirs ==
    /\ featureTree \in {tree \in SeqsUpTo(DirFiles, 3) :
                           \A i, j \in 1..Len(tree) : i # j => tree[i] # tree[j]}
    /\ results \in {[runs |-> r] :
                       r \in {runs \in SeqsUpTo(DirRuns, 2) :
                                 \A i, j \in 1..Len(runs) :
                                     i # j => runs[i].spec # runs[j].spec}}
    /\ \A i \in 1..Len(results.runs) :
           \E k \in 1..Len(featureTree) : featureTree[k].path = results.runs[i].spec
    /\ screenshotsDir = <<>>
    /\ InitHook

SpecDirs == InitDirs /\ [][Next]_vars

(***************************************************************************)
(* BaseApiClient: request, executeRequestWithRetry, shouldRetryRequest,    *)
(* with a SessionAuthStrategy.                                             *)
(***************************************************************************)
MaxRetries == 2        \* largest maxRetries / retries a caller passes

\* A number field that is absent (undefined).
Undefined == -1

\* maxRetries: 2 of the constructor's defaults, and the '?? 2' of
\* executeRequestWithRetry.
DefaultMaxRetries == 2

\* new BaseApiClient(config): the defaults, overridden by the keys of config.
BaseApiClient(config) ==
    [enableRetry |-> IF "enableRetry" \in DOMAIN config THEN config.enableRetry ELSE TRUE,
     maxRetries  |-> IF "maxRetries" \in DOMAIN config THEN config.maxRetries
                     ELSE DefaultMaxRetries]

\* requestConfig.retries ?? this.config.maxRetries ?? 2
MaxRetriesOf(config, requestConfig) ==
    IF requestConfig.retries # Undefined THEN requestConfig.retries
    ELSE IF config.maxRetries # Undefined THEN config.maxRetries
    ELSE DefaultMaxRetries

\* The token of a skipAuth request; the token of a session, with the number
\* of the login that established the session.
NoToken == [value |-> "", login |-> 0]
SessionToken(login) == [value |-> "session-authenticated", login |-> login]

\* buildHeaders: the Authorization header is set for a non-empty token.
BuildHeaders(token) ==
    IF token.value # ""
    THEN [ContentType |-> "application/json", Authorization |-> token]
    ELSE [ContentType |-> "application/json"]

\* response.isOkStatusCode, as the runner sets it: 2xx and 3xx.
IsOkStatusCode(status) == status \in 200..399

\* shouldRetryRequest.  The delays are 1000 * 2^(attempt - 1) capped at 10 s
\* and 2000 * 1.5^(attempt - 1) capped at 15 s.
ShouldRetryRequestOneMore(config, response, requestConfig, attemptNumber, maxRetries) ==
    LET status == response.status
        method == requestConfig.method
        Capped(delay, cap) == IF delay.n < cap * delay.d THEN delay ELSE Rat(cap, 1)
    IN  IF ~config.enableRetry \/ attemptNumber > maxRetries + 1 THEN [retry |-> FALSE]
        ELSE IF response.isOkStatusCode THEN [retry |-> FALSE]
        ELSE IF status = 401
        THEN [retry |-> TRUE, reason |-> "Unauthorized (401) - refreshing token",
              delayMs |-> Rat(500, 1), refreshToken |-> TRUE]
        ELSE IF status = 429
        THEN [retry |-> TRUE, reason |-> "Rate limited (429)",
              delayMs |-> Capped(Rat(1000 * 2 ^ (attemptNumber - 1), 1), 10000),
              refreshToken |-> FALSE]
        ELSE IF status \in {502, 503, 504}
        THEN [retry |-> TRUE, reason |-> "Server error",
              delayMs |-> Capped(Rat(2000 * 3 ^ (attemptNumber - 1),
                                     2 ^ (attemptNumber - 1)), 15000),
              refreshToken |-> FALSE]
        ELSE IF status = 500 /\ method = "GET"
        THEN [retry |-> TRUE, reason |-> "Internal server error (500) on GET request",
              delayMs |-> Rat(1000 * attemptNumber, 1), refreshToken |-> FALSE]
        ELSE IF status = 0 \/ status = Undefined
        THEN [retry |-> TRUE, reason |-> "Network/connection error",
              delayMs |-> Rat(1000 * attemptNumber, 1), refreshToken |-> FALSE]
        ELSE [retry |-> FALSE]

ShouldRetryRequestKeepsToken(config, response, requestConfig, attemptNumber, maxRetries) ==
    LET status == response.status
        method == requestConfig.method
        Capped(delay, cap) == IF delay.n < cap * delay.d THEN delay ELSE Rat(cap, 1)
    IN  IF ~config.enableRetry \/ attemptNumber > maxRetries THEN [retry |-> FALSE]
        ELSE IF response.isOkStatusCode THEN [retry |-> FALSE]
        ELSE IF status = 401
        THEN [retry |-> TRUE, reason |-> "Unauthorized (401) - refreshing token",
              delayMs |-> Rat(500, 1), refreshToken |-> FALSE]
        ELSE IF status = 429
        THEN [retry |-> TRUE, reason |-> "Rate limited (429)",
              delayMs |-> Capped(Rat(1000 * 2 ^ (attemptNumber - 1), 1), 10000),
              refreshToken |-> FALSE]
        ELSE IF status \in {502, 503, 504}
        THEN [retry |-> TRUE, reason |-> "Server error",
              delayMs |-> Capped(Rat(2000 * 3 ^ (attemptNumber - 1),
                                     2 ^ (attemptNumber - 1)), 15000),
              refreshToken |-> FALSE]
        ELSE IF status = 500 /\ method = "GET"
        THEN [retry |-> TRUE, reason |-> "Internal server error (500) on GET request",
              delayMs |-> Rat(1000 * attemptNumber, 1), refreshToken |-> FALSE]
        ELSE IF status = 0 \/ status = Undefined
        THEN [retry |-> TRUE, reason |-> "Network/connection error",
              delayMs |-> Rat(1000 * attemptNumber, 1), refreshToken |-> FALSE]
        ELSE [retry |-> FALSE]

ShouldRetryRequestAnyMethod(config, response, requestConfig, attemptNumber, maxRetries) ==
    LET status == response.status
        method == requestConfig.method
        Capped(delay, cap) == IF delay.n < cap * delay.d THEN delay ELSE Rat(cap, 1)
    IN  IF ~config.enableRetry \/ attemptNumber > maxRetries THEN [retry |-> FALSE]
        ELSE IF response.isOkStatusCode THEN [retry |-> FALSE]
        ELSE IF status = 401
        THEN [retry |-> TRUE, reason |-> "Unauthorized (401) - refreshing token",
              delayMs |-> Rat(500, 1), refreshToken |-> TRUE]
        ELSE IF status = 429
        THEN [retry |-> TRUE, reason |-> "Rate limited (429)",
              delayMs |-> Capped(Rat(1000 * 2 ^ (attemptNumber - 1), 1), 10000),
              refreshToken |-> FALSE]
        ELSE IF status \in {502, 503, 504}
        THEN [retry |-> TRUE, reason |-> "Server error",
              delayMs |-> Capped(Rat(2000 * 3 ^ (attemptNumber - 1),
                                     2 ^ (attemptNumber - 1)), 15000),
              refreshToken |-> FALSE]
        ELSE IF status = 500 /\ TRUE
        THEN [retry |-> TRUE, reason |-> "Internal server error (500) on GET request",
              delayMs |-> Rat(1000 * attemptNumber, 1), refreshToken |-> FALSE]
        ELSE IF status = 0 \/ status = Undefined
        THEN [retry |-> TRUE, reason |-> "Network/connection error",
              delayMs |-> Rat(1000 * attemptNumber, 1), refreshToken |-> FALSE]
        ELSE [retry |-> FALSE]

ShouldRetryRequest(config, response, requestConfig, attemptNumber, maxRetries) ==
    LET status == response.status
        method == requestConfig.method
        Capped(delay, cap) == IF delay.n < cap * delay.d THEN delay ELSE Rat(cap, 1)
    IN  IF ~config.enableRetry \/ attemptNumber > maxRetries THEN [retry |-> FALSE]
        ELSE IF response.isOkStatusCode THEN [retry |-> FALSE]
        ELSE IF status = 401
        THEN [retry |-> TRUE, reason |-> "Unauthorized (401) - refreshing token",
              delayMs |-> Rat(500, 1), refreshToken |-> TRUE]
        ELSE IF status = 429
        THEN [retry |-> TRUE, reason |-> "Rate limited (429)",
              delayMs |-> Capped(Rat(1000 * 2 ^ (attemptNumber - 1), 1), 10000),
              refreshToken |-> FALSE]
        ELSE IF status \in {502, 503, 504}
        THEN [retry |-> TRUE, reason |-> "Server error",
              delayMs |-> Capped(Rat(2000 * 3 ^ (attemptNumber - 1),
                                     2 ^ (attemptNumber - 1)), 15000),
              refreshToken |-> FALSE]
        ELSE IF status = 500 /\ method = "GET"
        THEN [retry |-> TRUE, reason |-> "Internal server error (500) on GET request",
              delayMs |-> Rat(1000 * attemptNumber, 1), refreshToken |-> FALSE]
        ELSE IF status = 0 \/ status = Undefined
        THEN [retry |-> TRUE, reason |-> "Network/connection error",
              delayMs |-> Rat(1000 * attemptNumber, 1), refreshToken |-> FALSE]
        ELSE [retry |-> FALSE]

\* The part of executeRequestWithRetry that runs at the call: the headers
\* are built and the HTTP request is issued.
ExecuteRequestWithRetry(client, token, attemptNumber) ==
    [client EXCEPT !.token = token,
                   !.attemptNumber = attemptNumber,
                   !.sent = Append(@, BuildHeaders(token)),
                   !.pc = "requested"]

\* SessionAuthStrategy.getToken, with the outcome of the login request it
\* sends when no session is open: the strategy afterwards, and the token
\* (none when the login is refused and its assertion fails the test).
GetToken(strategy, loginAccepted) ==
    LET called == [strategy EXCEPT !.calls.getToken = @ + 1]
    IN  IF strategy.isAuthenticated
        THEN [strategy |-> called, ok |-> TRUE, token |-> SessionToken(strategy.logins)]
        ELSE IF loginAccepted
        THEN [strategy |-> [called EXCEPT !.isAuthenticated = TRUE, !.logins = @ + 1],
              ok |-> TRUE, token |-> SessionToken(strategy.logins + 1)]
        ELSE [strategy |-> called, ok |-> FALSE, token |-> NoToken]

\* SessionAuthStrategy.refreshToken
RefreshToken(strategy, loginAccepted) ==
    GetToken([strategy EXCEPT !.isAuthenticated = FALSE, !.calls.refreshToken = @ + 1],
             loginAccepted)

\* BaseApiClient.request: the configuration is validated; then, as the
\* command queue runs, the token is fetched unless skipAuth is set, and the
\* first attempt is issued.
Request ==
    /\ apiClient.pc = "idle"
    /\ IF apiClient.requestConfig.endpoint = "" \/ apiClient.requestConfig.method = ""
       THEN /\ apiClient' = [apiClient EXCEPT !.pc = "threw"]
            /\ UNCHANGED authStrategy
       ELSE IF apiClient.requestConfig.skipAuth
       THEN /\ apiClient' = ExecuteRequestWithRetry(apiClient, NoToken, 1)
            /\ UNCHANGED authStrategy
       ELSE \E loginAccepted \in BOOLEAN :
               LET got == GetToken(authStrategy, loginAccepted)
               IN  /\ authStrategy' = got.strategy
                   /\ apiClient' = IF got.ok
                                   THEN ExecuteRequestWithRetry(apiClient, got.token, 1)
                                   ELSE [apiClient EXCEPT !.pc = "failed"]
    /\ UNCHANGED <<hookVars, logger>>

\* The statuses a response may carry (Undefined: none).
Statuses == {200, 304, 400, 401, 404, 429, 500, 501, 502, 503, 504, 0, Undefined}

\* The callback of cy.request: the response is examined, and either a retry
\* is scheduled or the response is returned.
HandleResponse ==
    /\ apiClient.pc = "requested"
    /\ \E status \in Statuses :
          LET response == [status |-> status, isOkStatusCode |-> IsOkStatusCode(status)]
              shouldRetry ==
                  ShouldRetryRequest(apiClient.config, response, apiClient.requestConfig,
                                     apiClient.attemptNumber,
                                     MaxRetriesOf(apiClient.config, apiClient.requestConfig))
          IN  apiClient' = [apiClient EXCEPT
                               !.response = response,
                               !.shouldRetry = shouldRetry,
                               !.pc = IF shouldRetry.retry THEN "waiting" ELSE "done"]
    /\ UNCHANGED <<hookVars, authStrategy, logger>>

\* After the delay: the token is refreshed, or the same token is kept.
RefreshOrKeepToken ==
    /\ apiClient.pc = "waiting"
    /\ IF apiClient.shouldRetry.refreshToken
       THEN \E loginAccepted \in BOOLEAN :
               LET got == RefreshToken(authStrategy, loginAccepted)
               IN  /\ authStrategy' = got.strategy
                   /\ apiClient' = IF got.ok
                                   THEN [apiClient EXCEPT !.tokenForRetry = got.token,
                                                          !.pc = "retrying"]
                                   ELSE [apiClient EXCEPT !.pc = "failed"]
       ELSE /\ apiClient' = [apiClient EXCEPT !.tokenForRetry = apiClient.token,
                                              !.pc = "retrying"]
            /\ UNCHANGED authStrategy
    /\ UNCHANGED <<hookVars, logger>>

\* The next attempt is issued with the token for the retry.
RetryRequest ==
    /\ apiClient.pc = "retrying"
    /\ apiClient' = ExecuteRequestWithRetry(apiClient, apiClient.tokenForRetry,
                                            apiClient.attemptNumber + 1)
    /\ UNCHANGED <<hookVars, authStrategy, logger>>

\* The clients and requests of a test: UserApiService passes enableRetry and
\* maxRetries; other callers may leave them out.
ClientConfigs ==
    {[name |-> "UserAPI"]}
    \cup {[name |-> "UserAPI", enableRetry |-> e, maxRetries |-> m] :
              e \in BOOLEAN, m \in (0..MaxRetries) \cup {Undefined}}

RequestConfigs ==
    {[endpoint |-> "/login", method |-> m, retries |-> r, skipAuth |-> s] :
        m \in {"GET", "POST", ""}, r \in (0..MaxRetries) \cup {Undefined}, s \in BOOLEAN}

\* No after:run hook is running while a test sends requests.
NoHook ==
    /\ featureTree = <<>>
    /\ results = FailedRunResult
    /\ pc = "skipped"
    /\ cucumberJson = NoFile
    /\ log = <<>>
    /\ stats = NoStats
    /\ screenshotsDir = <<>>
    /\ htmlReport = NoReport
    /\ runNumber = 1
    /\ origin = NoOrigin

InitClient ==
    /\ apiClient \in {[config |-> BaseApiClient(c), requestConfig |-> r, pc |-> "idle",
                        attemptNumber |-> 0, token |-> NoToken, tokenForRetry |-> NoToken,
                        response |-> [status |-> Undefined, isOkStatusCode |-> FALSE],
                        shouldRetry |-> [retry |-> FALSE], sent |-> <<>>] :
                           c \in ClientConfigs, r \in RequestConfigs}
    /\ authStrategy \in {[isAuthenticated |-> a, logins |-> IF a THEN 1 ELSE 0,
                           calls |-> [getToken |-> 0, refreshToken |-> 0]] :
                              a \in BOOLEAN}
    /\ logger = Null
    /\ NoHook

NextClient == Request \/ HandleResponse \/ RefreshOrKeepToken \/ RetryRequest

SpecClient == InitClient /\ [][NextClient]_vars

(***************************************************************************)
(* TestLogger.                                                             *)
(***************************************************************************)
MaxMessages == 2       \* messages logged after the logger is constructed

\* enum LogLevel, as compiled: the names map to numbers and the numbers,
\* as keys, map back to the names; any other key is undefined (Null).
LogLevel(key) ==
    CASE key = "ERROR" -> [level |-> 0]
      [] key = "WARN"  -> [level |-> 1]
      [] key = "INFO"  -> [level |-> 2]
      [] key = "DEBUG" -> [level |-> 3]
      [] key = "0" -> [name |-> "ERROR"]
      [] key = "1" -> [name |-> "WARN"]
      [] key = "2" -> [name |-> "INFO"]
      [] key = "3" -> [name |-> "DEBUG"]
      [] OTHER -> Null

\* getLogLevelFromEnv: Cypress.env('LOG_LEVEL') || 'INFO', upper-cased,
\* looked up in LogLevel, || LogLevel.INFO.  Undefined and 0 are falsy.
GetLogLevelFromEnv(env) ==
    LET envLevel == IF env.set /\ env.value # "" THEN env.value ELSE "INFO"
        upper == CASE envLevel \in {"error", "Error"} -> "ERROR"
                   [] envLevel \in {"warn", "Warn"} -> "WARN"
                   [] envLevel \in {"info", "Info"} -> "INFO"
                   [] envLevel \in {"debug", "Debug"} -> "DEBUG"
                   [] envLevel = "verbose" -> "VERBOSE"
                   [] OTHER -> envLevel
        found == LogLevel(upper)
    IN  IF found = Null \/ found = LogLevel("ERROR") THEN LogLevel("INFO") ELSE found

\* shouldLog: level <= this.logLevel, which is false when logLevel is not
\* a number.
ShouldLog(level, logLevel) ==
    "level" \in DOMAIN logLevel /\ level.level <= logLevel.level

\* TestLogger.getInstance, at the first call: the constructor reads the
\* level from the environment.
GetInstance ==
    /\ ~logger.instance
    /\ logger' = [logger EXCEPT !.instance = TRUE,
                                !.logLevel = GetLogLevelFromEnv(logger.env)]
    /\ UNCHANGED <<hookVars, apiClient, authStrategy>>

\* error, warn, info and debug: the entry is kept, and the message is shown
\* when shouldLog allows (error: always).
LogMessage(method) ==
    /\ logger.instance
    /\ Len(logger.logs) < MaxMessages
    /\ logger' = [logger EXCEPT
                     !.logs = Append(@, method),
                     !.shown = IF method = "ERROR"
                                  \/ ShouldLog(LogLevel(method), logger.logLevel)
                               THEN Append(@, method) ELSE @]
    /\ UNCHANGED <<hookVars, apiClient, authStrategy>>

\* The values of LOG_LEVEL in the runner's environment.
EnvLevels ==
    {[set |-> FALSE, value |-> ""]}
    \cup {[set |-> TRUE, value |-> v] :
             v \in {"", "ERROR", "error", "Error", "WARN", "warn", "INFO", "info",
                    "DEBUG", "debug", "Debug", "verbose", "TRACE", "0", "1"}}

InitLogger ==
    /\ logger \in {[env |-> e, instance |-> FALSE, logLevel |-> LogLevel("INFO"),
                    logs |-> <<>>, shown |-> <<>>] : e \in EnvLevels}
    /\ apiClient = Null
    /\ authStrategy = Null
    /\ NoHook

NextLogger ==
    \/ GetInstance
    \/ LogMessage("ERROR")
    \/ LogMessage("WARN")
    \/ LogMessage("INFO")
    \/ LogMessage("DEBUG")

SpecLogger == InitLogger /\ [][NextLogger]_vars

(***************************************************************************)
(* Properties.                                                             *)
(***************************************************************************)
JsonData == cucumberJson.data

\* The JSON was written from the parsed feature files.
Primary == pc # "run" /\ log[1] = "Cucumber JSON generated"

\* The JSON was written by the fallback correlator.
FallbackUsed == pc # "run" /\ log[1] = "Final fallback Cucumber JSON generated"

\* The run records matched, by scenario name, to the scenarios of a feature.
MatchedRecords(feature) == GetTestResultsForFeature(results, feature.uri)

StepIs(step, status, duration) ==
    step.result.status = status /\ step.result.duration = duration

\* P(scenario, record) holds of every scenario of the JSON that is matched
\* to a run record.
ForMatched(P(_, _)) ==
    \A f \in 1..Len(JsonData) : \A j \in 1..Len(JsonData[f].elements) :
        LET sc == JsonData[f].elements[j]
            recs == MatchedRecords(JsonData[f])
        IN  sc.name \in DOMAIN recs => P(sc, recs[sc.name])

\* C1: a scenario matched to a failed run record has its steps before the
\* guessed index passed with duration D/K, the step at the guessed index
\* failed with duration D and the record's error text, and the steps after
\* it skipped with duration 0.
C1_FailedScenarioSteps ==
    Primary => ForMatched(LAMBDA sc, r :
        r.status = "failed" =>
            LET K == Len(sc.steps)
                i == DetectFailedStepFromError(r.error_message, sc.steps)
            IN  \A p \in 1..K :
                  /\ p - 1 < i => StepIs(sc.steps[p], "passed", RatDivInt(r.duration, K))
                  /\ p - 1 = i => /\ StepIs(sc.steps[p], "failed", r.duration)
                                  /\ sc.steps[p].result.error_message = r.error_message
                  /\ p - 1 > i => StepIs(sc.steps[p], "skipped", RatZero))

\* C2: every step of a scenario matched to a passed run record of duration
\* D is passed with duration D/K.
C2_PassedScenarioSteps ==
    Primary => ForMatched(LAMBDA sc, r :
        r.status = "passed" =>
            \A p \in 1..Len(sc.steps) :
                StepIs(sc.steps[p], "passed", RatDivInt(r.duration, Len(sc.steps))))

\* C3: every step of a scenario matched to a pending run record is skipped
\* with duration 0.
C3_PendingScenarioSteps ==
    Primary => ForMatched(LAMBDA sc, r :
        r.status = "skipped" =>
            \A p \in 1..Len(sc.steps) : StepIs(sc.steps[p], "skipped", RatZero))

KnownPatterns ==
    {"expected 1 to equal 2", "expect(1).to.eq(2)",
     "expected 1 to equal 0", "expect(1).to.equal(0)"}

\* C4: a scenario matched to a failed run record whose error text is absent
\* or holds no known pattern has its last step failed and all others passed.
C4_DefaultGuessIsLastStep ==
    Primary => ForMatched(LAMBDA sc, r :
        (r.status = "failed"
            /\ \A i \in 1..Len(r.error_message) : r.error_message[i] \notin KnownPatterns) =>
            \A p \in 1..Len(sc.steps) :
                sc.steps[p].result.status =
                    IF p = Len(sc.steps) THEN "failed" ELSE "passed")

\* The end-to-end input of C5: a Background of 1 step and one Scenario of
\* 2 steps, and one failed record of 3000 ms whose error text holds
\* 'expected 1 to equal 2'.
C5_Input ==
    /\ featureTree = <<[path |-> LoginPath,
                        content |-> FeatureText("API Login", 1, <<2>>)]>>
    /\ Len(results.runs) = 1
    /\ results.runs[1].spec = LoginPath
    /\ Len(results.runs[1].tests) = 1
    /\ LET t == results.runs[1].tests[1]
       IN  /\ t.title = <<"API Login", "Login Test">>
           /\ t.state = "failed"
           /\ t.duration = 3000
           /\ \E i \in 1..Len(t.displayError) : t.displayError[i] = "expected 1 to equal 2"

\* C5: on that input the scenario has 3 steps: step 0 passed, step 1 failed
\* with the full 3000 ms and the error text, step 2 skipped with duration 0;
\* the statistics report failedScenarios = 1 and passRate = 0.
C5_EndToEnd ==
    /\ (C5_Input /\ pc # "run") =>
          /\ Len(JsonData) = 1
          /\ Len(JsonData[1].elements) = 1
          /\ LET steps == JsonData[1].elements[1].steps
             IN  /\ Len(steps) = 3
                 /\ steps[1].result.status = "passed"
                 /\ steps[2].result.status = "failed"
                 /\ steps[2].result.duration = [n |-> 3000, d |-> 1]
                 /\ steps[2].result.error_message = results.runs[1].tests[1].displayError
                 /\ steps[3].result.status = "skipped"
                 /\ steps[3].result.duration = [n |-> 0, d |-> 1]
    /\ (C5_Input /\ pc = "reported") =>
          /\ stats.failedScenarios = 1
          /\ stats.passRate = 0

C5_Witness ==
    /\ C5_Input
    /\ pc = "reported"
    /\ stats.totalScenarios = 1
    /\ JsonData[1].elements[1].steps[2].result.status = "failed"

(***************************************************************************)
(* Properties of the parser, over a feature file of arbitrary lines.       *)
(***************************************************************************)
Content == featureTree[1].content

ContentPath == featureTree[1].path

IsStepLine(l) == l.head \in {"Given", "When", "Then", "And", "But"} /\ l.text # ""

LinesWith(head) == {k \in 1..Len(Content) : Content[k].head = head}

Max(S) == CHOOSE x \in S : \A y \in S : y <= x

Min(S) == CHOOSE x \in S : \A y \in S : x <= y

\* The <<keyword, text>> of the step lines strictly between two positions.
StepsBetween(a, b) ==
    LET lines == SelectSeq(SubSeq(Content, a + 1, b - 1), IsStepLine)
    IN  [i \in 1..Len(lines) |-> <<lines[i].head, lines[i].text>>]

StepsOf(scenario) ==
    [i \in 1..Len(scenario.steps) |->
        <<scenario.steps[i].keyword, scenario.steps[i].name>>]

OneScenarioNoEarlierSteps ==
    /\ Cardinality(LinesWith("Scenario:")) = 1
    /\ \A k \in 1..Len(Content) :
          IsStepLine(Content[k]) => k > Min(LinesWith("Scenario:"))

\* C6: a file with a Feature line and one Scenario, with no step line
\* before the Scenario line, parses to one Scenario holding exactly the
\* file's step lines, in order, with their keywords and texts.
C6_OneScenarioSteps ==
    (Primary /\ OneScenarioNoEarlierSteps) =>
        /\ Len(JsonData) = 1
        /\ Len(JsonData[1].elements) = 1
        /\ StepsOf(JsonData[1].elements[1]) = StepsBetween(0, Len(Content) + 1)

C6_Witness ==
    /\ Primary
    /\ OneScenarioNoEarlierSteps
    /\ Len(JsonData[1].elements[1].steps) = 2
    /\ JsonData[1].elements[1].steps[2].keyword = "And"
    /\ \E k \in 1..Len(Content) :
          k > Min(LinesWith("Scenario:")) /\ Content[k].head \in {"@smoke", "Then"}

\* The position of the first Scenario line after k, or the end of the file.
NextScenario(k) ==
    Min({q \in LinesWith("Scenario:") : q > k} \cup {Len(Content) + 1})

\* C7: every Scenario that follows a Background block holds the steps of
\* that block (the step lines from the Background line to the next Scenario
\* line), in order, followed by the step lines from its own Scenario line to
\* the next Scenario line.
C7_BackgroundPrepended ==
    Primary =>
        /\ Len(JsonData[1].elements) = Cardinality(LinesWith("Scenario:"))
        /\ \A q \in LinesWith("Scenario:") :
              LET index == Cardinality({k \in LinesWith("Scenario:") : k <= q})
                  before == {p \in LinesWith("Background:") : p < q}
              IN  before # {} =>
                      StepsOf(JsonData[1].elements[index]) =
                          StepsBetween(Max(before), NextScenario(Max(before)))
                          \o StepsBetween(q, NextScenario(q))

LastFeatureLineNamed ==
    LinesWith("Feature:") # {} /\ Content[Max(LinesWith("Feature:"))].text # ""

SomeFeatureLineNamed == \E k \in LinesWith("Feature:") : Content[k].text # ""

JsonHasUri(path) == \E f \in 1..Len(JsonData) : JsonData[f].uri = path

\* C8 as stated: the file is parsed to null, and adds no Feature to the
\* JSON, exactly when it has no 'Feature:' line with a non-empty name.
C8_NullIffNoNamedFeatureLine ==
    pc # "run" =>
        /\ (ParseFeatureFile(Content, ContentPath) = Null) <=> ~SomeFeatureLineNamed
        /\ JsonHasUri(ContentPath) <=> SomeFeatureLineNamed

\* C8 amended: the file is parsed to null, and adds no parsed Feature to
\* the JSON, exactly when it has no 'Feature:' line or the last such line
\* has an empty name.
C8_NullIffLastFeatureLineUnnamed ==
    pc # "run" =>
        /\ (ParseFeatureFile(Content, ContentPath) = Null) <=> ~LastFeatureLineNamed
        /\ JsonHasUri(ContentPath) <=> LastFeatureLineNamed

C8_Witness ==
    /\ pc # "run"
    /\ SomeFeatureLineNamed
    /\ ~LastFeatureLineNamed
    /\ LinesWith("Scenario:") # {}
    /\ \E k \in 1..Len(Content) : IsStepLine(Content[k])
    /\ ~JsonHasUri(ContentPath)

\* C9: a scenario matched to no run record keeps every step as parsed:
\* passed, with the placeholder duration of 1,000,000,000 ns and no error
\* message.
C9_UnmatchedScenarioUnchanged ==
    Primary =>
        \A f \in 1..Len(JsonData) : \A j \in 1..Len(JsonData[f].elements) :
            LET sc == JsonData[f].elements[j]
            IN  sc.name \notin DOMAIN MatchedRecords(JsonData[f]) =>
                    \A p \in 1..Len(sc.steps) :
                        /\ StepIs(sc.steps[p], "passed", Rat(1000000000, 1000000))
                        /\ sc.steps[p].result.error_message = <<>>

\* Some run names a '.feature' spec whose first file of that base name in
\* the feature tree ends its Feature lines with a named one.
SomeFeatureParsed ==
    \E r \in 1..Len(results.runs) :
        LET spec == results.runs[r].spec
            files == SelectSeq(featureTree, LAMBDA file :
                         file.path.stem = spec.stem /\ file.path.ext = spec.ext)
        IN  /\ spec # NoSpec
            /\ spec.ext = ".feature"
            /\ files # <<>>
            /\ LET named == SelectSeq(files[1].content, LAMBDA l : l.head = "Feature:")
               IN  named # <<>> /\ named[Len(named)].text # ""

RunsWithSpec == SelectSeq(results.runs, LAMBDA run : run.spec # NoSpec)

\* C10: the fallback correlator is used exactly when no Feature was parsed;
\* its output has one Feature per run that has a spec, in order, and in it
\* one Scenario of exactly one Step per run record, in order.
C10_FallbackIffNoFeatureParsed ==
    pc # "run" =>
        /\ FallbackUsed <=> ~SomeFeatureParsed
        /\ FallbackUsed =>
              /\ Len(JsonData) = Len(RunsWithSpec)
              /\ \A i \in 1..Len(RunsWithSpec) :
                    LET tests == RunsWithSpec[i].tests
                        scenarios == JsonData[i].elements
                    IN  /\ JsonData[i].name[3] = RunsWithSpec[i].spec
                        /\ Len(scenarios) = Len(tests)
                        /\ \A j \in 1..Len(tests) :
                              /\ Len(scenarios[j].steps) = 1
                              /\ scenarios[j].name =
                                    IF tests[j].title # <<>>
                                    THEN tests[j].title[Len(tests[j].title)]
                                    ELSE "Unknown Scenario"
                              /\ scenarios[j].steps[1].result.duration =
                                    [n |-> tests[j].duration, d |-> 1]

C10_Witness ==
    /\ FallbackUsed
    /\ Len(results.runs) = 2
    /\ results.runs[1].spec = NoSpec
    /\ Len(results.runs[1].tests) > 0
    /\ results.runs[2].spec = LoginPath
    /\ Len(results.runs[2].tests) = 2
    /\ featureTree # <<>>
    /\ Len(JsonData) = 1
    /\ Len(JsonData[1].elements) = 2

(***************************************************************************)
(* Properties of the statistics and of the rendered report.                *)
(***************************************************************************)
Reported == pc = "reported" /\ htmlReport.exists

JsonScenarios == AllScenarios(JsonData)

StatusesOf(scenario) ==
    {scenario.steps[i].result.status : i \in 1..Len(scenario.steps)}

\* failed dominates skipped, skipped dominates passed.
StatusByRule(scenario) ==
    IF "failed" \in StatusesOf(scenario) THEN "failed"
    ELSE IF "skipped" \in StatusesOf(scenario) THEN "skipped"
    ELSE "passed"

ScenariosByRule(status) ==
    {i \in 1..Len(JsonScenarios) : StatusByRule(JsonScenarios[i]) = status}

\* C11: the status the report shows for a scenario is failed if any of its
\* steps is failed, else skipped if any is skipped, else passed (so passed
\* for a scenario without steps), and the scenario counters of the
\* statistics count the scenarios by that same rule.
C11_ScenarioStatusRule ==
    Reported =>
        /\ \A i \in 1..Len(JsonScenarios) :
              /\ htmlReport.scenarios[i].status = StatusByRule(JsonScenarios[i])
              /\ JsonScenarios[i].steps = <<>> => htmlReport.scenarios[i].status = "passed"
        /\ stats.failedScenarios = Cardinality(ScenariosByRule("failed"))
        /\ stats.skippedScenarios = Cardinality(ScenariosByRule("skipped"))
        /\ stats.passedScenarios = Cardinality(ScenariosByRule("passed"))

\* A scenario with a failed and a skipped step, shown and counted as failed,
\* next to a passed one.
C11_Witness ==
    /\ Reported
    /\ \E i \in 1..Len(JsonScenarios) :
          /\ {"failed", "skipped"} \subseteq StatusesOf(JsonScenarios[i])
          /\ htmlReport.scenarios[i].status = "failed"
    /\ stats.failedScenarios = 1
    /\ stats.passedScenarios = 1

\* C12: passRate is 0 when there is no scenario, and otherwise the integer
\* nearest to 100 * passedScenarios / totalScenarios (halves upwards); it is
\* always an integer of 0..100.
C12_PassRateRounded ==
    Reported =>
        /\ stats.passRate \in 0..100
        /\ stats.totalScenarios = 0 => stats.passRate = 0
        /\ stats.totalScenarios > 0 =>
              /\ 2 * stats.totalScenarios * stats.passRate
                    <= 200 * stats.passedScenarios + stats.totalScenarios
              /\ 200 * stats.passedScenarios + stats.totalScenarios
                    < 2 * stats.totalScenarios * (stats.passRate + 1)

\* Two of three scenarios passed: 66.67 is reported as 67.
C12_Witness ==
    /\ Reported
    /\ stats.totalScenarios = 3
    /\ stats.passedScenarios = 2
    /\ stats.passRate = 67

\* No scenario at all: the pass rate is 0.
C12_WitnessNoScenario == Reported /\ stats.totalScenarios = 0 /\ stats.passRate = 0

(***************************************************************************)
(* Properties of the matching of screenshots.                              *)
(***************************************************************************)
LoginTestFailedPng == <<"login", "_", "test", "_", "failed", ".png">>

\* The files of the report's screenshots directory.
ReportScreenshots ==
    LET files == CopyDirectoryRecursive(screenshotsDir)
    IN  {RelativePath(files[i]) : i \in 1..Len(files)}

\* The name is 'Login Test' up to case and surrounding whitespace.
IsLoginTest(name) == TrimSpaces(LowerText(Tokens(name))) = <<"login", " ", "test">>

ShownUnder(i) ==
    {htmlReport.scenarios[i].screenshots[k] :
        k \in 1..Len(htmlReport.scenarios[i].screenshots)}

\* C14: in a rendered report, login_test_failed.png is shown under every
\* scenario that failed and is named 'Login Test' (up to case and
\* surrounding whitespace), and no screenshot is shown under a scenario
\* that did not fail.
C14_ScreenshotMatching ==
    Reported =>
        \A i \in 1..Len(JsonScenarios) :
            /\ (/\ LoginTestFailedPng \in ReportScreenshots
                /\ IsLoginTest(JsonScenarios[i].name)
                /\ StatusByRule(JsonScenarios[i]) = "failed")
                  => LoginTestFailedPng \in ShownUnder(i)
            /\ StatusByRule(JsonScenarios[i]) # "failed" => ShownUnder(i) = {}

\* The part of C14 about scenarios that did not fail.
C14_OnlyFailedScenarios ==
    Reported =>
        \A i \in 1..Len(JsonScenarios) :
            StatusByRule(JsonScenarios[i]) # "failed" => ShownUnder(i) = {}

\* The part of C14 about the scenario named exactly 'Login Test'.
C14_ExactName ==
    Reported =>
        \A i \in 1..Len(JsonScenarios) :
            (/\ LoginTestFailedPng \in ReportScreenshots
             /\ JsonScenarios[i].name = "Login Test"
             /\ StatusByRule(JsonScenarios[i]) = "failed")
               => LoginTestFailedPng \in ShownUnder(i)

(***************************************************************************)
(* Properties of a series of runs.                                         *)
(***************************************************************************)
\* C13: a conversion that replaces a JSON written from the same results
\* (over the same feature files) writes the same JSON again.
C13_SameInputsSameJson ==
    (pc = "converted" /\ origin.replaced # Null /\ origin.replaced.results = results)
        => cucumberJson.data = origin.replaced.data

\* The second run has converted the results of the first once more, from
\* the parsed feature file.
C13_Witness ==
    /\ pc = "converted"
    /\ runNumber = 2
    /\ origin.replaced # Null
    /\ origin.replaced.results = results
    /\ Primary
    /\ Len(JsonScenarios) = 2

C16_HookNeverThrows == pc # "threw"

\* C17: when the hook of a run is over, a cucumber-report.json and a
\* test-report.html on disk were written by that run.
C17_NoArtifactOfEarlierRun ==
    HookDone =>
        /\ cucumberJson.exists => origin.json = runNumber
        /\ htmlReport.exists => origin.html = runNumber

\* C17 for the runs whose results hold 'runs' and whose hook does not throw.
C17_AfterCompleteHook ==
    pc = "reported" =>
        /\ cucumberJson.exists => origin.json = runNumber
        /\ htmlReport.exists => origin.html = runNumber

FailedSteps(scenario) ==
    {p \in 1..Len(scenario.steps) : scenario.steps[p].result.status = "failed"}

\* C19: a scenario matched to a run record has the status of the record
\* (passed, skipped for pending, failed otherwise) as the status derived
\* from its steps, and exactly one failed step when the record failed.
C19_StatusOfMatchedScenario ==
    Primary => ForMatched(LAMBDA sc, r :
        /\ StatusByRule(sc) = r.status
        /\ r.status = "failed" => Cardinality(FailedSteps(sc)) = 1)

\* The feature file a feature of the JSON was parsed from.
FileOf(feature) ==
    featureTree[CHOOSE k \in 1..Len(featureTree) : featureTree[k].path = feature.uri]

\* Scenario j of a feature of the JSON, as merging its run record into the
\* freshly parsed file writes it when no other scenario is merged.
MergedAlone(feature, j) ==
    LET parsed == ParseFeatureFile(FileOf(feature).content, feature.uri)
        scenario == parsed.elements[j]
    IN  StringifyScenario(scenario,
                          MergeScenario(parsed.objs, scenario, MatchedRecords(feature)))

\* C20: the step results of a scenario are those its own run record gives
\* it: merging the other scenarios of the feature leaves them unchanged.
C20_OtherScenariosUnchanged ==
    Primary =>
        \A f \in 1..Len(JsonData) : \A j \in 1..Len(JsonData[f].elements) :
            JsonData[f].elements[j] = MergedAlone(JsonData[f], j)

(***************************************************************************)
(* Runs of feature files that share a base name.                           *)
(***************************************************************************)
\* The file of the feature tree at the path of the run's spec, if any.
OwnFiles(run) == SelectSeq(featureTree, LAMBDA f : f.path = run.spec)

\* The feature of the run's own file, merged with the run's own records.
OwnFeature(run) ==
    StringifyFeature(
        MergeFeatureWithResults(
            ParseFeatureFile(OwnFiles(run)[1].content, run.spec),
            CollectTests(<<>>, run.tests)))

\* C21: for every run of the results whose spec name ends in '.feature' and
\* whose file exists under the feature tree, the JSON contains the Feature
\* parsed from that run's own file, holding that run's scenarios, also when
\* two files of the tree have the same base name in different directories.
C21_RunsOwnFeature ==
    pc # "run" =>
        \A i \in 1..Len(results.runs) :
            LET run == results.runs[i]
            IN  EndsWithFeature(run.spec) /\ OwnFiles(run) # <<>> =>
                    \E f \in 1..Len(JsonData) : JsonData[f] = OwnFeature(run)

\* The same, for runs whose spec is the only one of its base name, in the
\* feature tree and in the results.
C21_UniqueBasename ==
    pc # "run" =>
        \A i \in 1..Len(results.runs) :
            LET run == results.runs[i]
            IN  /\ EndsWithFeature(run.spec)
                /\ OwnFiles(run) # <<>>
                /\ Len(GlobSync(featureTree, Basename(run.spec))) = 1
                /\ \A k \in 1..Len(results.runs) :
                       k # i => Basename(results.runs[k].spec) # Basename(run.spec)
                => \E f \in 1..Len(JsonData) : JsonData[f] = OwnFeature(run)

(***************************************************************************)
(* Scenario durations.                                                     *)
(***************************************************************************)
\* The record's duration in ms (the merge holds it as ns).
RecordMs(record) == RatRound(record.duration)

Near(a, b) == a - b \in -1..1

\* C22: every scenario matched to a run record of duration D ms has the
\* duration D, within rounding, in the statistics (getScenarioDuration),
\* whether the record passed, failed or was pending (0 for a pending record).
C22_ScenarioDuration ==
    Primary =>
        ForMatched(LAMBDA sc, rec :
            Near(GetScenarioDuration(sc),
                 IF rec.status = "skipped" THEN 0 ELSE RecordMs(rec)))

\* The sum of the durations (ms) of the records of the scenarios.
RECURSIVE SumRecordMs(_, _)
SumRecordMs(scenarios, records) ==
    IF scenarios = <<>> THEN 0
    ELSE RecordMs(records[Head(scenarios).name]) + SumRecordMs(Tail(scenarios), records)

\* Scenarios with steps, matched to records that passed, in files without
\* Background steps, do have the duration of their record, one by one and
\* in the total.
C22_PassedScenarioDuration ==
    Primary /\ pc = "reported" =>
        \A f \in 1..Len(JsonData) :
            LET scenarios == JsonData[f].elements
                recs == MatchedRecords(JsonData[f])
            IN  (\A j \in 1..Len(scenarios) :
                    /\ scenarios[j].name \in DOMAIN recs
                    /\ recs[scenarios[j].name].status = "passed"
                    /\ scenarios[j].steps # <<>>
                    /\ scenarios[j] = MergedAlone(JsonData[f], j))
                => /\ \A j \in 1..Len(scenarios) :
                        GetScenarioDuration(scenarios[j])
                            = RecordMs(recs[scenarios[j].name])
                   /\ Len(JsonData) = 1 =>
                        Near(stats.totalDuration, SumRecordMs(scenarios, recs))

(***************************************************************************)
(* The status the two correlators give a run record.                       *)
(***************************************************************************)
\* The status of the single Step the fallback correlator built for record
\* j of the i-th run that has a spec.
FallbackStatus(i, j) == JsonData[i].elements[j].steps[1].result.status

\* C23: the single Step the fallback correlator builds for a run record
\* has the status getTestResultsForFeature assigns to the record's state:
\* passed for 'passed', skipped for 'pending', failed otherwise.
C23_FallbackStatusAsPrimary ==
    FallbackUsed =>
        \A i \in 1..Len(RunsWithSpec) : \A j \in 1..Len(RunsWithSpec[i].tests) :
            FallbackStatus(i, j) = TestResultOf(RunsWithSpec[i].tests[j]).status

\* The two agree on every record that is not pending.
C23_AgreeUnlessPending ==
    FallbackUsed =>
        \A i \in 1..Len(RunsWithSpec) : \A j \in 1..Len(RunsWithSpec[i].tests) :
            RunsWithSpec[i].tests[j].state # "pending" =>
                FallbackStatus(i, j) = TestResultOf(RunsWithSpec[i].tests[j]).status

(***************************************************************************)
(* Overall and per-feature scenario counts.                                *)
(***************************************************************************)
RECURSIVE SumOver(_, _)
SumOver(featureStats, field) ==
    IF featureStats = <<>> THEN 0
    ELSE Head(featureStats)[field] + SumOver(Tail(featureStats), field)

\* C24: the sums over all features of getFeatureStats passed, failed and
\* skipped equal generateStatistics passedScenarios, failedScenarios and
\* skippedScenarios, and these three add up to totalScenarios.
C24_AggregationsAgree ==
    pc = "reported" /\ htmlReport.exists =>
        /\ SumOver(htmlReport.featureStats, "passed") = stats.passedScenarios
        /\ SumOver(htmlReport.featureStats, "failed") = stats.failedScenarios
        /\ SumOver(htmlReport.featureStats, "skipped") = stats.skippedScenarios
        /\ stats.passedScenarios + stats.failedScenarios + stats.skippedScenarios
              = stats.totalScenarios

\* Two features are reported, with passed, failed and skipped scenarios
\* between them.
C24_Witness ==
    /\ pc = "reported"
    /\ htmlReport.exists
    /\ Len(htmlReport.featureStats) = 2
    /\ htmlReport.featureStats[1].skipped = 1
    /\ htmlReport.featureStats[1].passed = 1
    /\ htmlReport.featureStats[2].failed = 1
    /\ stats.totalScenarios = 4

(***************************************************************************)
(* The percentages and averages of the page.                               *)
(***************************************************************************)
IsNumber(q) == q.d # 0

\* C25: rendering the report divides by zero nowhere: for a feature list
\* with zero scenarios the pass rate, the success rate and the average
\* duration shown are defined numbers, and the success rate of the
\* performance section always equals the statistics' passRate.
C25_NoDivisionByZero ==
    pc = "reported" /\ htmlReport.exists =>
        /\ htmlReport.performance.successRate = Rat(stats.passRate, 1)
        /\ stats.totalScenarios = 0 =>
              /\ stats.passRate \in 0..100
              /\ IsNumber(htmlReport.performance.successRate)
              /\ IsNumber(htmlReport.performance.avgDuration.number)

\* With at least one scenario the numbers are defined and the success rate
\* is the passRate; passRate itself is always defined.
C25_WithScenarios ==
    pc = "reported" /\ htmlReport.exists =>
        /\ stats.passRate \in 0..100
        /\ stats.totalScenarios > 0 =>
              /\ htmlReport.performance.successRate = Rat(stats.passRate, 1)
              /\ IsNumber(htmlReport.performance.avgDuration.number)

(***************************************************************************)
(* BaseApiClient: attempts, tokens and retries.                            *)
(***************************************************************************)
\* The request has ended: a response was returned, the login of the
\* strategy failed the test, or the configuration was rejected.
Settled == apiClient.pc \in {"done", "failed", "threw"}

\* The retries allowed: the request's, else the client's, else 2.
RetriesAllowed ==
    IF apiClient.requestConfig.retries # Undefined THEN apiClient.requestConfig.retries
    ELSE IF apiClient.config.maxRetries # Undefined THEN apiClient.config.maxRetries
    ELSE 2

Attempts == Len(apiClient.sent)

\* The steps a request has left at most: two per attempt not yet issued
\* (the wait and the attempt), and the handling of the response.
StepsLeft ==
    IF Settled THEN 0
    ELSE 3 * (RetriesAllowed + 1 - Attempts)
         + (IF apiClient.pc = "requested" THEN 3
            ELSE IF apiClient.pc = "waiting" THEN 2
            ELSE IF apiClient.pc = "retrying" THEN 1 ELSE 4)

\* C26: a request always terminates (until it has ended a step is enabled,
\* and every step leaves fewer steps) and issues at most maxRetries + 1
\* attempts, whatever the server returns; with enableRetry false it issues
\* exactly one.
C26_TerminatesWithinMaxAttempts ==
    /\ [](/\ Attempts <= RetriesAllowed + 1
          /\ StepsLeft >= 0
          /\ ~Settled => ENABLED NextClient
          /\ apiClient.pc = "done" => Attempts >= 1
          /\ apiClient.pc = "done" /\ ~apiClient.config.enableRetry => Attempts = 1)
    /\ [][StepsLeft' < StepsLeft]_vars

\* With neither retries nor maxRetries given, the third attempt has failed
\* and the request has ended.
C26_Witness ==
    /\ apiClient.pc = "done"
    /\ apiClient.requestConfig.retries = Undefined
    /\ apiClient.config.maxRetries = Undefined
    /\ Attempts = 3
    /\ apiClient.response.status = 503

\* The token of an attempt's Authorization header (NoToken: no header).
TokenSent(i) ==
    IF "Authorization" \in DOMAIN apiClient.sent[i]
    THEN apiClient.sent[i].Authorization ELSE NoToken

\* C27: when an attempt returns 401 and a retry is allowed, refreshToken is
\* invoked after that attempt and before the next, and the next attempt
\* carries the refreshed token; a retry after any other status carries the
\* previous attempt's token, and the strategy is not contacted.
C27_RefreshOn401Only ==
    /\ [][authStrategy' # authStrategy /\ Attempts > 0 =>
             /\ RefreshOrKeepToken
             /\ apiClient.response.status = 401
             /\ authStrategy'.calls.refreshToken = authStrategy.calls.refreshToken + 1]_vars
    /\ [][RefreshOrKeepToken /\ apiClient'.pc = "retrying" =>
             IF apiClient.response.status = 401
             THEN /\ authStrategy'.calls.refreshToken
                        = authStrategy.calls.refreshToken + 1
                  /\ apiClient'.tokenForRetry = SessionToken(authStrategy'.logins)
                  /\ authStrategy'.logins = authStrategy.logins + 1
             ELSE /\ authStrategy' = authStrategy
                  /\ apiClient'.tokenForRetry = TokenSent(Attempts)]_vars
    /\ [][RetryRequest =>
             /\ Attempts' = Attempts + 1
             /\ TokenSent(Attempts)' = apiClient.tokenForRetry]_vars

\* The second attempt follows a 401 and carries the token of a new login.
C27_Witness ==
    /\ apiClient.pc = "requested"
    /\ Attempts = 2
    /\ apiClient.response.status = 401
    /\ authStrategy.calls.refreshToken = 1
    /\ TokenSent(2) = SessionToken(authStrategy.logins)
    /\ TokenSent(2) # TokenSent(1)
    /\ TokenSent(1) # NoToken

\* C28: a request with skipAuth = true never invokes the auth strategy
\* (getToken, refreshToken), and none of its attempts, retries included,
\* carries an Authorization header, whatever the server returns.
C28_SkipAuthOnEveryAttempt ==
    apiClient.requestConfig.skipAuth =>
        /\ authStrategy.calls.getToken = 0
        /\ authStrategy.calls.refreshToken = 0
        /\ \A i \in 1..Attempts : TokenSent(i) = NoToken

\* The first attempt of a skipAuth request skips authentication, and so do
\* the retries as long as no attempt returned 401.
C28_UntilUnauthorized ==
    [][apiClient.requestConfig.skipAuth /\ authStrategy.calls.getToken = 0
         /\ ~(RefreshOrKeepToken /\ apiClient.response.status = 401) =>
             /\ authStrategy' = authStrategy
             /\ \A i \in 1..Attempts' : TokenSent(i)' = NoToken]_vars

\* C29: with retries enabled and attempts remaining, a response is retried
\* exactly when it is not OK and its status is 401, 429, 502, 503, 504,
\* 0 or absent, or 500 on a GET request.
C29_RetriedStatuses ==
    /\ apiClient.pc \in {"waiting", "done"}
    /\ apiClient.config.enableRetry
    /\ apiClient.attemptNumber <= RetriesAllowed
    => (apiClient.pc = "waiting" <=>
          /\ ~apiClient.response.isOkStatusCode
          /\ \/ apiClient.response.status \in {401, 429, 502, 503, 504, 0, Undefined}
             \/ /\ apiClient.response.status = 500
                /\ apiClient.requestConfig.method = "GET")

\* A 500 on GET is being retried.
C29_Witness ==
    /\ apiClient.pc = "waiting"
    /\ apiClient.response.status = 500
    /\ apiClient.requestConfig.method = "GET"
    /\ apiClient.shouldRetry.retry
    /\ ~apiClient.shouldRetry.refreshToken

(***************************************************************************)
(* TestLogger: the level from the environment.                             *)
(***************************************************************************)
\* The number of the level LOG_LEVEL names, in any letter case; INFO (2)
\* when it is unset or names no level.
NamedLevel(env) ==
    IF ~env.set THEN 2
    ELSE CASE env.value \in {"ERROR", "error", "Error"} -> 0
           [] env.value \in {"WARN", "warn", "Warn"} -> 1
           [] env.value \in {"INFO", "info", "Info"} -> 2
           [] env.value \in {"DEBUG", "debug", "Debug"} -> 3
           [] OTHER -> 2

LevelNumber(method) ==
    CASE method = "ERROR" -> 0 [] method = "WARN" -> 1
      [] method = "INFO" -> 2 [] method = "DEBUG" -> 3

\* C30: the logger's effective level is the level LOG_LEVEL names (ERROR,
\* WARN, INFO, DEBUG, in any letter case), INFO when it is unset or unknown;
\* thereafter the warn, info and debug messages shown are exactly those
\* whose level is at or below it.
C30_LevelFromEnv ==
    logger.instance =>
        /\ logger.logLevel = [level |-> NamedLevel(logger.env)]
        /\ SelectSeq(logger.shown, LAMBDA m : m # "ERROR")
              = SelectSeq(logger.logs, LAMBDA m :
                    m # "ERROR" /\ LevelNumber(m) <= NamedLevel(logger.env))

\* The same for every value other than ERROR and the keys '0'..'3'.
C30_OtherLevels ==
    /\ logger.instance
    /\ NamedLevel(logger.env) # 0
    /\ logger.env.value \notin {"0", "1", "2", "3"}
    => /\ logger.logLevel = [level |-> NamedLevel(logger.env)]
       /\ SelectSeq(logger.shown, LAMBDA m : m # "ERROR")
             = SelectSeq(logger.logs, LAMBDA m :
                   m # "ERROR" /\ LevelNumber(m) <= NamedLevel(logger.env))

=============================================================================
